---- MODULE Spec2Model ----
(***************************************************************************)
(* A model of the LinkedIn lead qualifier: the scraper's per-target        *)
(* extraction pipeline and its shared rate gate (linkedin_scraper.py) and  *)
(* the scoring engine (scoring_engine.py, models.py).                      *)
(*                                                                         *)
(* Texts are sequences of one-character strings.  A Python value that may  *)
(* be None, a string, a number or a list is a record [kind, text, num].    *)
(***************************************************************************)
EXTENDS Integers, Sequences, FiniteSets, TLC

----------------------------------------------------------------------------
(* Bounds of the model *)

\* number of targets a run hands to the request handler
MaxTargets == 2

\* the clock of the rate-gate specification stops after this many ticks
MaxTicks == 5

\* number of workers sharing the rate gate
NumWorkers == 2

\* requests each worker dispatches in the rate-gate specification
MaxRequests == 2

----------------------------------------------------------------------------
(* Python values *)

None == [kind |-> "none", text |-> <<>>, num |-> 0]

Str(t) == [kind |-> "str", text |-> t, num |-> 0]

Num(n) == [kind |-> "int", text |-> <<>>, num |-> n]

\* a truthy value that is neither a string nor a list (a JSON number or object)
NonStr == [kind |-> "other", text |-> <<>>, num |-> 0]

\* a list of strings, its items joined; [] is List(<<>>)
List(t) == [kind |-> "list", text |-> t, num |-> 0]

\* Python truthiness: None, "", [] and 0 are falsy
Truthy(v) ==
    \/ v.kind = "other"
    \/ v.kind \in {"str", "list"} /\ v.text # <<>>
    \/ v.kind = "int" /\ v.num # 0

\* f"{v or ''}"
OrEmpty(v) == IF Truthy(v) THEN v.text ELSE <<>>

IsWhitespace(c) == c \in {" ", "\t", "\n"}

\* len(s.split()): the number of maximal runs of non-whitespace characters
SplitCount(s) ==
    Cardinality({i \in 1..Len(s) :
        /\ ~IsWhitespace(s[i])
        /\ (i = 1 \/ IsWhitespace(s[i - 1]))})

\* c * n
Repeat(c, n) == [i \in 1..n |-> c]

UpperLetters == <<"A", "B", "C", "D", "E", "F", "G", "H", "I", "J", "K", "L", "M", "N", "O", "P", "Q", "R", "S", "T", "U", "V", "W", "X", "Y", "Z">>

LowerLetters == <<"a", "b", "c", "d", "e", "f", "g", "h", "i", "j", "k", "l", "m", "n", "o", "p", "q", "r", "s", "t", "u", "v", "w", "x", "y", "z">>

LowerChar(c) ==
    IF \E i \in 1..Len(UpperLetters) : UpperLetters[i] = c
    THEN LowerLetters[CHOOSE i \in 1..Len(UpperLetters) : UpperLetters[i] = c]
    ELSE c

UpperChar(c) ==
    IF \E i \in 1..Len(LowerLetters) : LowerLetters[i] = c
    THEN UpperLetters[CHOOSE i \in 1..Len(LowerLetters) : LowerLetters[i] = c]
    ELSE c

IsLetter(c) ==
    \E i \in 1..Len(LowerLetters) : LowerLetters[i] = c \/ UpperLetters[i] = c

\* str.lower()
Lower(s) == [i \in 1..Len(s) |-> LowerChar(s[i])]

\* str.title(): a letter after a non-letter is upper-cased, every other lower-cased
Title(s) ==
    [i \in 1..Len(s) |->
        IF i = 1 \/ ~IsLetter(s[i - 1]) THEN UpperChar(s[i]) ELSE LowerChar(s[i])]

\* the element of a one-element set.  Only({e(x) : x \in {v}}) is e with the
\* local variable x bound to the value of v, evaluated once (a definition of a
\* LET is evaluated again at each of its uses when TLC records coverage)
Only(S) == CHOOSE r \in S : TRUE

\* the Python test "k in t" on strings
Contains(t, k) ==
    \E s \in {<<t, k>>} :
        \/ s[2] = <<>>
        \/ \E i \in 1..(Len(s[1]) - Len(s[2]) + 1) :
              s[1][i] = s[2][1] /\ SubSeq(s[1], i, i + Len(s[2]) - 1) = s[2]

\* dict.get(key) with the default None
Get(d, k) == IF k \in DOMAIN d THEN d[k] ELSE None

EmptyDict == [k \in {} |-> None]

\* dict.update(other)
Update(d, e) ==
    [k \in DOMAIN d \union DOMAIN e |-> IF k \in DOMAIN e THEN e[k] ELSE d[k]]

----------------------------------------------------------------------------
(* The derived-field estimator: _estimate_experience_years, _extract_industry *)

Digits == <<"0", "1", "2", "3", "4", "5", "6", "7", "8", "9">>

IsDigit(c) == \E i \in 1..Len(Digits) : Digits[i] = c

DigitValue(c) == (CHOOSE i \in 1..Len(Digits) : Digits[i] = c) - 1

\* the index after the run of digits that starts at i (the greedy \d+)
DigitsEnd(t, i) ==
    CHOOSE j \in (i + 1)..(Len(t) + 1) :
        /\ \A k \in i..(j - 1) : IsDigit(t[k])
        /\ (j = Len(t) + 1 \/ ~IsDigit(t[j]))

\* the index after the run of whitespace that starts at i (\s*)
SkipWs(t, i) ==
    CHOOSE j \in i..(Len(t) + 1) :
        /\ \A k \in i..(j - 1) : IsWhitespace(t[k])
        /\ (j = Len(t) + 1 \/ ~IsWhitespace(t[j]))

\* the literal w stands at index i of t
HasAt(t, i, w) ==
    /\ i >= 1
    /\ i + Len(w) - 1 <= Len(t)
    /\ SubSeq(t, i, i + Len(w) - 1) = w

\* an optional literal: the index after it when it stands at i, else i
SkipOpt(t, i, w) == IF HasAt(t, i, w) THEN i + Len(w) ELSE i

\* int() of a run of digits
RECURSIVE ParseInt(_)
ParseInt(ds) ==
    IF ds = <<>> THEN 0
    ELSE 10 * ParseInt(SubSeq(ds, 1, Len(ds) - 1)) + DigitValue(ds[Len(ds)])

\* the index after "\+?\s*<unit>s?\s*" for a number's digits ending before j
AfterUnit(t, j, unit) ==
    LET a == SkipWs(t, SkipOpt(t, j, <<"+">>))
    IN  IF HasAt(t, a, unit)
        THEN SkipWs(t, SkipOpt(t, a + Len(unit), <<"s">>))
        ELSE 0

\* a variant that tries the "years in" pattern first; C27 fails for it, which
\* tells it from year_patterns
year_patterns_in_first ==
    << [unit |-> <<"y", "e", "a", "r">>, of |-> FALSE, tail |-> <<"i", "n">>],
       [unit |-> <<"y", "e", "a", "r">>, of |-> TRUE,  tail |-> <<"e", "x", "p", "e", "r", "i", "e", "n", "c", "e">>],
       [unit |-> <<"y", "r">>,   of |-> TRUE,  tail |-> <<"e", "x", "p", "e", "r", "i", "e", "n", "c", "e">>] >>

\* year_patterns, in order: each says whether it matches with its number at i
year_patterns ==
    << [unit |-> <<"y", "e", "a", "r">>, of |-> TRUE,  tail |-> <<"e", "x", "p", "e", "r", "i", "e", "n", "c", "e">>],
       [unit |-> <<"y", "e", "a", "r">>, of |-> FALSE, tail |-> <<"i", "n">>],
       [unit |-> <<"y", "r">>,   of |-> TRUE,  tail |-> <<"e", "x", "p", "e", "r", "i", "e", "n", "c", "e">>] >>

\* re.match of pattern p at index i of t
MatchesAt(t, i, p) ==
    /\ i <= Len(t)
    /\ IsDigit(t[i])
    /\ LET b == AfterUnit(t, DigitsEnd(t, i), p.unit)
           c == IF p.of /\ HasAt(t, b, <<"o", "f">>) THEN SkipWs(t, b + 2) ELSE b
       IN  b # 0 /\ HasAt(t, c, p.tail)

\* re.findall(p, t): whether there is a match, and the first match's group 1
HasMatch(t, p) == \E i \in 1..Len(t) : MatchesAt(t, i, p)

FirstMatch(t, p) ==
    LET i == CHOOSE k \in 1..Len(t) :
                 MatchesAt(t, k, p) /\ \A m \in 1..(k - 1) : ~MatchesAt(t, m, p)
    IN  SubSeq(t, i, DigitsEnd(t, i) - 1)

AnyWord(t, words) == \E w \in words : Contains(t, w)

SeniorWords == {<<"s", "e", "n", "i", "o", "r">>, <<"l", "e", "a", "d">>, <<"p", "r", "i", "n", "c", "i", "p", "a", "l">>, <<"d", "i", "r", "e", "c", "t", "o", "r">>}

ManagerWords == {<<"m", "a", "n", "a", "g", "e", "r">>, <<"s", "u", "p", "e", "r", "v", "i", "s", "o", "r">>}

JuniorWords == {<<"j", "u", "n", "i", "o", "r">>, <<"a", "s", "s", "o", "c", "i", "a", "t", "e">>, <<"e", "n", "t", "r", "y">>}

\* the text both estimators read: f"{headline or ''} {about or ''}"
CombinedText(profile) ==
    OrEmpty(profile.headline) \o <<" ">> \o OrEmpty(profile.about)

_estimate_experience_years(profile) ==
    IF ~Truthy(profile.headline) /\ ~Truthy(profile.about) THEN None
    ELSE LET text == Lower(CombinedText(profile))
             hits == {k \in 1..Len(year_patterns) : HasMatch(text, year_patterns[k])}
         IN  IF hits # {}
             THEN LET first == CHOOSE k \in hits : \A m \in hits : k <= m
                  IN  Num(ParseInt(FirstMatch(text, year_patterns[first])))
             ELSE IF AnyWord(text, SeniorWords) THEN Num(8)
             ELSE IF AnyWord(text, ManagerWords) THEN Num(5)
             ELSE IF AnyWord(text, JuniorWords) THEN Num(2)
             ELSE None

industry_keywords ==
    << [industry |-> <<"t", "e", "c", "h", "n", "o", "l", "o", "g", "y">>,
        keywords |-> {<<"s", "o", "f", "t", "w", "a", "r", "e">>, <<"t", "e", "c", "h">>, <<"p", "r", "o", "g", "r", "a", "m", "m", "i", "n", "g">>, <<"d", "e", "v", "e", "l", "o", "p", "e", "r">>,
                      <<"e", "n", "g", "i", "n", "e", "e", "r">>, <<"I", "T">>}],
       [industry |-> <<"f", "i", "n", "a", "n", "c", "e">>,
        keywords |-> {<<"f", "i", "n", "a", "n", "c", "e">>, <<"b", "a", "n", "k", "i", "n", "g">>, <<"i", "n", "v", "e", "s", "t", "m", "e", "n", "t">>, <<"f", "i", "n", "a", "n", "c", "i", "a", "l">>,
                      <<"a", "c", "c", "o", "u", "n", "t", "i", "n", "g">>}],
       [industry |-> <<"h", "e", "a", "l", "t", "h", "c", "a", "r", "e">>,
        keywords |-> {<<"h", "e", "a", "l", "t", "h", "c", "a", "r", "e">>, <<"m", "e", "d", "i", "c", "a", "l">>, <<"h", "e", "a", "l", "t", "h">>, <<"p", "h", "a", "r", "m", "a", "c", "e", "u", "t", "i", "c", "a", "l">>,
                      <<"b", "i", "o", "t", "e", "c", "h">>}],
       [industry |-> <<"m", "a", "r", "k", "e", "t", "i", "n", "g">>,
        keywords |-> {<<"m", "a", "r", "k", "e", "t", "i", "n", "g">>, <<"a", "d", "v", "e", "r", "t", "i", "s", "i", "n", "g">>, <<"d", "i", "g", "i", "t", "a", "l", " ", "m", "a", "r", "k", "e", "t", "i", "n", "g">>, <<"b", "r", "a", "n", "d">>}],
       [industry |-> <<"s", "a", "l", "e", "s">>,
        keywords |-> {<<"s", "a", "l", "e", "s">>, <<"b", "u", "s", "i", "n", "e", "s", "s", " ", "d", "e", "v", "e", "l", "o", "p", "m", "e", "n", "t">>, <<"a", "c", "c", "o", "u", "n", "t", " ", "m", "a", "n", "a", "g", "e", "m", "e", "n", "t">>}],
       [industry |-> <<"c", "o", "n", "s", "u", "l", "t", "i", "n", "g">>,
        keywords |-> {<<"c", "o", "n", "s", "u", "l", "t", "i", "n", "g">>, <<"c", "o", "n", "s", "u", "l", "t", "a", "n", "t">>, <<"a", "d", "v", "i", "s", "o", "r", "y">>}],
       [industry |-> <<"e", "d", "u", "c", "a", "t", "i", "o", "n">>,
        keywords |-> {<<"e", "d", "u", "c", "a", "t", "i", "o", "n">>, <<"t", "e", "a", "c", "h", "i", "n", "g">>, <<"a", "c", "a", "d", "e", "m", "i", "c">>, <<"u", "n", "i", "v", "e", "r", "s", "i", "t", "y">>}],
       [industry |-> <<"r", "e", "t", "a", "i", "l">>,
        keywords |-> {<<"r", "e", "t", "a", "i", "l">>, <<"e", "-", "c", "o", "m", "m", "e", "r", "c", "e">>, <<"c", "o", "m", "m", "e", "r", "c", "e">>}],
       [industry |-> <<"m", "a", "n", "u", "f", "a", "c", "t", "u", "r", "i", "n", "g">>,
        keywords |-> {<<"m", "a", "n", "u", "f", "a", "c", "t", "u", "r", "i", "n", "g">>, <<"p", "r", "o", "d", "u", "c", "t", "i", "o", "n">>, <<"i", "n", "d", "u", "s", "t", "r", "i", "a", "l">>}] >>

_extract_industry(profile) ==
    IF ~Truthy(profile.headline) /\ ~Truthy(profile.about) THEN None
    ELSE LET text_lower == Lower(CombinedText(profile))
             hits == {k \in 1..Len(industry_keywords) :
                         AnyWord(text_lower, industry_keywords[k].keywords)}
         IN  IF hits = {} THEN None
             ELSE LET first == CHOOSE k \in hits : \A m \in hits : k <= m
                  IN  Str(Title(industry_keywords[first].industry))

----------------------------------------------------------------------------
(* fuzzywuzzy's fuzz.partial_ratio over difflib's SequenceMatcher *)

\* SequenceMatcher.find_longest_match(alo, ahi, blo, bhi), 1-based and with
\* inclusive bounds: the longest common block, the earliest in a among the
\* longest and the earliest in b among those; <<alo, blo, 0>> when none
LongestMatch(a, b, alo, ahi, blo, bhi) ==
    LET Same(i, j, k) == \A x \in 0..(k - 1) : a[i + x] = b[j + x]
        Room(i, j) == IF ahi - i < bhi - j THEN ahi - i + 1 ELSE bhi - j + 1
        \* the length of the common block that starts at (i, j)
        Run(i, j) == CHOOSE k \in 0..Room(i, j) :
                        /\ Same(i, j, k)
                        /\ (k = Room(i, j) \/ a[i + k] # b[j + k])
        \* every common block <<i, j, k>> that cannot be extended to the right
        Blocks == {<<ij[1], ij[2], Run(ij[1], ij[2])>> :
                     ij \in {p \in (alo..ahi) \X (blo..bhi) : a[p[1]] = b[p[2]]}}
        Best(blocks) ==
            CHOOSE m \in blocks :
                \A o \in blocks :
                    \/ m[3] > o[3]
                    \/ /\ m[3] = o[3]
                       /\ \/ m[1] < o[1]
                          \/ m[1] = o[1] /\ m[2] <= o[2]
    IN  Only({IF blocks = {} THEN <<alo, blo, 0>> ELSE Best(blocks) :
              blocks \in {Blocks}})

\* SequenceMatcher.get_matching_blocks() without the terminating dummy: the
\* longest match, then recursively the pieces to its left and to its right
RECURSIVE MatchingBlocks(_, _, _, _, _, _)
MatchingBlocks(a, b, alo, ahi, blo, bhi) ==
    LET Pieces(m, lo, hi) ==
            IF m[3] = 0 THEN {}
            ELSE {m} \union MatchingBlocks(a, b, lo[1], m[1] - 1, lo[2], m[2] - 1)
                     \union MatchingBlocks(a, b, m[1] + m[3], hi[1],
                                           m[2] + m[3], hi[2])
    IN  IF alo > ahi \/ blo > bhi THEN {}
        ELSE Only({Pieces(v[1], v[2], v[3]) :
                   v \in {<<LongestMatch(a, b, alo, ahi, blo, bhi),
                            <<alo, blo>>, <<ahi, bhi>> >>}})

RECURSIVE SumSizes(_)
SumSizes(blocks) ==
    IF blocks = {} THEN 0
    ELSE LET m == CHOOSE x \in blocks : TRUE
         IN  m[3] + SumSizes(blocks \ {m})

\* SequenceMatcher.ratio() as the fraction 2*M / T, given as <<2*M, T>>
Ratio(a, b) ==
    LET Of(s, t) ==
            <<2 * SumSizes(MatchingBlocks(s, t, 1, Len(s), 1, Len(t))), Len(s) + Len(t)>>
    IN  Only({Of(v[1], v[2]) : v \in {<<a, b>>}})

\* utils.intr(100 * n/d): int(round(.)), Python rounding halves to even
RoundPercent(n, d) ==
    LET q == (100 * n) \div d
        r == (100 * n) % d
    IN  IF 2 * r > d THEN q + 1
        ELSE IF 2 * r < d THEN q
        ELSE IF q % 2 = 0 THEN q ELSE q + 1

\* fuzz.partial_ratio(s1, s2), an integer in 0..100
partial_ratio(s1, s2) ==
    LET \* 0-based long_start of every block, the dummy block included
        Offs(shorter, longer, blocks) ==
            {IF m[2] - m[1] > 0 THEN m[2] - m[1] ELSE 0 : m \in blocks}
            \union {Len(longer) - Len(shorter)}
        Window(shorter, longer, o) ==
            SubSeq(longer, o + 1,
                   IF o + Len(shorter) < Len(longer)
                   THEN o + Len(shorter) ELSE Len(longer))
        Ratios(shorter, longer, blocks) ==
            {Ratio(shorter, Window(shorter, longer, o)) :
                o \in Offs(shorter, longer, blocks)}
        Best(ratios) ==
            CHOOSE r \in ratios : \A o \in ratios : r[1] * o[2] >= o[1] * r[2]
        Score(best) ==
            IF 1000 * best[1] > 995 * best[2] THEN 100
            ELSE RoundPercent(best[1], best[2])
        BestOf(ratios) == Only({Score(best) : best \in {Best(ratios)}})
        OfBlocks(shorter, longer, blocks) ==
            Only({BestOf(ratios) : ratios \in {Ratios(shorter, longer, blocks)}})
        Of(shorter, longer) ==
            IF shorter = longer THEN 100
            ELSE IF Len(shorter) = 0 THEN 0
            ELSE Only({OfBlocks(shorter, longer, blocks) :
                       blocks \in {MatchingBlocks(shorter, longer, 1, Len(shorter),
                                                  1, Len(longer))}})
    IN  Only({Of(s[1], s[2]) :
              s \in {IF Len(s1) <= Len(s2) THEN <<s1, s2>> ELSE <<s2, s1>>}})

----------------------------------------------------------------------------
(* Exact arithmetic for the scores: a fraction is [n, d] with d > 0 *)

RECURSIVE GCD(_, _)
GCD(a, b) == IF b = 0 THEN a ELSE GCD(b, a % b)

LCM(a, b) == (a \div GCD(a, b)) * b

Frac(n, d) == [n |-> n, d |-> d]

Zero == Frac(0, 1)

One == Frac(1, 1)

\* x > p/q, x >= p/q and x = p/q for a fraction x and integers p, q > 0
Above(x, p, q) == x.n * q > p * x.d

AtLeast(x, p, q) == x.n * q >= p * x.d

Equals(x, p, q) == x.n * q = p * x.d

\* min(1.0, x)
CapAtOne(x) == IF x.n > x.d THEN One ELSE x

----------------------------------------------------------------------------
(* models.py: ScoringWeights, in thousandths *)

Dimensions ==
    <<"job_title", "industry", "location", "experience", "company_size", "skills">>

\* ScoringWeights(): the default weights
DefaultWeights ==
    [job_title |-> 250, industry |-> 200, location |-> 150, experience |-> 200,
     company_size |-> 100, skills |-> 100]

WeightTotal(w) ==
    w.job_title + w.industry + w.location + w.experience + w.company_size + w.skills

\* a variant that accepts a total off by exactly 0.01; C14 fails for it, which
\* tells it from validate
validate_inclusive(w) ==
    LET total == WeightTotal(w)
        diff == IF total >= 1000 THEN total - 1000 ELSE 1000 - total
    IN  diff <= 10

\* ScoringWeights.validate: abs(total - 1.0) < 0.01
validate(w) ==
    LET total == WeightTotal(w)
        diff == IF total >= 1000 THEN total - 1000 ELSE 1000 - total
    IN  diff < 10

----------------------------------------------------------------------------
(* scoring_engine.py: LeadScoringEngine *)

\* the result of scanning targets[1..k] in a fuzzy-matching loop: "hit" is the
\* target that returned 1.0 at once (0 when none), else the best fuzzy score so
\* far in percent and the target that gave it (0 when none)
ScanStart == [hit |-> 0, best_score |-> 0, best_match |-> 0]

\* the end of such a loop: an immediate hit, or the best match when it reaches
\* the threshold (in percent), or no match
ScanResult(scan, targets, threshold) ==
    IF scan.hit # 0 THEN [score |-> One, match |-> Str(targets[scan.hit])]
    ELSE IF scan.best_score >= threshold
    THEN [score |-> Frac(scan.best_score, 100), match |-> Str(targets[scan.best_match])]
    ELSE [score |-> Zero, match |-> None]

RECURSIVE ScanTitles(_, _, _)
ScanTitles(current_title, targets, k) ==
    LET Better(prev, fuzzy_score) ==
            IF fuzzy_score > prev.best_score
            THEN [prev EXCEPT !.best_score = fuzzy_score, !.best_match = k]
            ELSE prev
        Step(prev, target_lower) ==
            IF prev.hit # 0 THEN prev
            ELSE IF Contains(current_title, target_lower)
                    \/ Contains(target_lower, current_title)
            THEN [prev EXCEPT !.hit = k]
            ELSE Only({Better(prev, fuzzy_score) :
                       fuzzy_score \in {partial_ratio(current_title, target_lower)}})
    IN  IF k = 0 THEN ScanStart
        ELSE Only({Step(v[1], v[2]) :
                   v \in {<<ScanTitles(current_title, targets, k - 1),
                            Lower(targets[k])>>}})

\* a variant that accepts a similarity of 0.60; C19 fails for it, which tells
\* it from _score_job_title
_score_job_title_lenient(c, profile) ==
    LET Scan(current_title) ==
            Only({ScanResult(scan, c.target_job_titles, 60) :
                  scan \in {ScanTitles(current_title, c.target_job_titles,
                                       Len(c.target_job_titles))}})
    IN  IF c.target_job_titles = <<>> \/ ~Truthy(profile.current_position)
        THEN [score |-> Zero, match |-> None]
        ELSE Only({Scan(current_title) :
                   current_title \in {Lower(profile.current_position.text)}})

_score_job_title(c, profile) ==
    LET Scan(current_title) ==
            Only({ScanResult(scan, c.target_job_titles, 70) :
                  scan \in {ScanTitles(current_title, c.target_job_titles,
                                       Len(c.target_job_titles))}})
    IN  IF c.target_job_titles = <<>> \/ ~Truthy(profile.current_position)
        THEN [score |-> Zero, match |-> None]
        ELSE Only({Scan(current_title) :
                   current_title \in {Lower(profile.current_position.text)}})

\* the non-empty ones of industry, headline and about, lower-cased, in order
IndustryTexts(profile) ==
    LET Part(v) == IF Truthy(v) THEN <<Lower(v.text)>> ELSE <<>>
    IN  Part(profile.industry) \o Part(profile.headline) \o Part(profile.about)

\* ' '.join(texts)
RECURSIVE JoinSpace(_)
JoinSpace(texts) ==
    IF texts = <<>> THEN <<>>
    ELSE IF Len(texts) = 1 THEN texts[1]
    ELSE texts[1] \o <<" ">> \o JoinSpace(Tail(texts))

\* the inner loop over text_to_check for one target
RECURSIVE ScanTexts(_, _, _, _, _)
ScanTexts(prev, texts, target_lower, k, j) ==
    LET Better(before, fuzzy_score) ==
            IF fuzzy_score > before.best_score
            THEN [before EXCEPT !.best_score = fuzzy_score, !.best_match = k]
            ELSE before
    IN  IF j = 0 THEN prev
        ELSE Only({Better(v[1], v[2]) :
                   v \in {<<ScanTexts(prev, texts, target_lower, k, j - 1),
                            partial_ratio(texts[j], target_lower)>>}})

RECURSIVE ScanIndustries(_, _, _, _)
ScanIndustries(texts, combined_text, targets, k) ==
    LET Step(prev, target_lower) ==
            IF prev.hit # 0 THEN prev
            ELSE IF Contains(combined_text, target_lower)
            THEN [prev EXCEPT !.hit = k]
            ELSE ScanTexts(prev, texts, target_lower, k, Len(texts))
    IN  IF k = 0 THEN ScanStart
        ELSE Only({Step(v[1], v[2]) :
                   v \in {<<ScanIndustries(texts, combined_text, targets, k - 1),
                            Lower(targets[k])>>}})

_score_industry(c, profile) ==
    LET Scan(text_to_check, combined_text) ==
            Only({ScanResult(scan, c.target_industries, 70) :
                  scan \in {ScanIndustries(text_to_check, combined_text,
                                           c.target_industries,
                                           Len(c.target_industries))}})
        Joined(text_to_check) ==
            Only({Scan(text_to_check, combined_text) :
                  combined_text \in {JoinSpace(text_to_check)}})
    IN  IF c.target_industries = <<>> \/ IndustryTexts(profile) = <<>>
        THEN [score |-> Zero, match |-> None]
        ELSE Only({Joined(text_to_check) :
                   text_to_check \in {IndustryTexts(profile)}})

\* a variant that knows one word for remote work; C22 fails for it, which
\* tells it from RemoteWords
RemoteWordOnly == {<<"r", "e", "m", "o", "t", "e">>}

\* the keywords of the special handling of the target "remote"
RemoteWords == {<<"r", "e", "m", "o", "t", "e">>, <<"w", "o", "r", "l", "d", "w", "i", "d", "e">>, <<"g", "l", "o", "b", "a", "l">>, <<"d", "i", "s", "t", "r", "i", "b", "u", "t", "e", "d">>}

RECURSIVE ScanLocations(_, _, _)
ScanLocations(profile_location, targets, k) ==
    LET Better(prev, fuzzy_score) ==
            IF fuzzy_score > prev.best_score
            THEN [prev EXCEPT !.best_score = fuzzy_score, !.best_match = k]
            ELSE prev
        Step(prev, target_lower) ==
            IF prev.hit # 0 THEN prev
            ELSE IF Contains(profile_location, target_lower)
                    \/ Contains(target_lower, profile_location)
            THEN [prev EXCEPT !.hit = k]
            ELSE IF target_lower = <<"r", "e", "m", "o", "t", "e">> /\ AnyWord(profile_location, RemoteWords)
            THEN [prev EXCEPT !.hit = k]
            ELSE Only({Better(prev, fuzzy_score) :
                       fuzzy_score \in {partial_ratio(profile_location, target_lower)}})
    IN  IF k = 0 THEN ScanStart
        ELSE Only({Step(v[1], v[2]) :
                   v \in {<<ScanLocations(profile_location, targets, k - 1),
                            Lower(targets[k])>>}})

_score_location(c, profile) ==
    LET Scan(profile_location) ==
            Only({ScanResult(scan, c.target_locations, 80) :
                  scan \in {ScanLocations(profile_location, c.target_locations,
                                          Len(c.target_locations))}})
    IN  IF c.target_locations = <<>> \/ ~Truthy(profile.location)
        THEN [score |-> Zero, match |-> None]
        ELSE Only({Scan(profile_location) :
                   profile_location \in {Lower(profile.location.text)}})

\* the details text, by its parts: which sentence, the years, the minimum and
\* the bonus in percent ("with N% experience bonus" when it is above 0)
ExperienceDetails(kind, years, minimum, bonus) ==
    [kind |-> kind, years |-> years, minimum |-> minimum, bonus |-> bonus]

\* a variant that scores the years below the minimum without the factor 0.7;
\* C18 fails for it, which tells it from _score_experience
_score_experience_unscaled(c, profile) ==
    IF ~Truthy(profile.experience_years)
    THEN [score |-> Zero, details |-> ExperienceDetails("not available", 0, 0, 0)]
    ELSE LET min_years == c.min_experience_years
             actual_years == profile.experience_years.num
             bonus == IF 2 * (actual_years - min_years) < 20
                      THEN 2 * (actual_years - min_years) ELSE 20
         IN  IF actual_years >= min_years
             THEN [score |-> CapAtOne(Frac(100 + bonus, 100)),
                   details |-> ExperienceDetails("meets", actual_years, min_years, bonus)]
             ELSE [score |-> Frac(actual_years,
                                  (IF min_years > 1 THEN min_years ELSE 1)),
                   details |-> ExperienceDetails("below", actual_years, min_years, 0)]

_score_experience(c, profile) ==
    IF ~Truthy(profile.experience_years)
    THEN [score |-> Zero, details |-> ExperienceDetails("not available", 0, 0, 0)]
    ELSE LET min_years == c.min_experience_years
             actual_years == profile.experience_years.num
             \* min(0.2, (actual - min) * 0.02), in percent
             bonus == IF 2 * (actual_years - min_years) < 20
                      THEN 2 * (actual_years - min_years) ELSE 20
         IN  IF actual_years >= min_years
             THEN [score |-> CapAtOne(Frac(100 + bonus, 100)),
                   details |-> ExperienceDetails("meets", actual_years, min_years, bonus)]
             ELSE [score |-> Frac(actual_years * 7,
                                  (IF min_years > 1 THEN min_years ELSE 1) * 10),
                   details |-> ExperienceDetails("below", actual_years, min_years, 0)]

\* a variant that resolves the company size and scores a match in full; C6 fails
\* for it, which tells it from _score_company_size
_score_company_size_full(c, profile) ==
    IF c.target_company_sizes = <<>> \/ ~Truthy(profile.company_size)
    THEN [score |-> Zero, match |-> None]
    ELSE [score |-> One, match |-> profile.company_size]

_score_company_size(c, profile) ==
    IF c.target_company_sizes = <<>> \/ ~Truthy(profile.company_size)
    THEN [score |-> Zero, match |-> None]
    ELSE [score |-> Frac(1, 2), match |-> Str(<<"C", "o", "m", "p", "a", "n", "y", " ", "s", "i", "z", "e", " ", "d", "a", "t", "a", " ", "n", "o", "t", " ", "a", "v", "a", "i", "l", "a", "b", "l", "e">>)]

\* a variant without the fuzzy comparison; C20 fails for it, which tells it
\* from SkillMatches
SkillMatchesExactly(required_lower, profile_skills_lower) ==
    \/ \E i \in 1..Len(profile_skills_lower) : profile_skills_lower[i] = required_lower
    \/ \E i \in 1..Len(profile_skills_lower) :
          Contains(profile_skills_lower[i], required_lower)

\* whether one required skill is matched by the profile's (lower-cased) skills
SkillMatches(required_lower, profile_skills_lower) ==
    \/ \E i \in 1..Len(profile_skills_lower) : profile_skills_lower[i] = required_lower
    \/ \E i \in 1..Len(profile_skills_lower) :
          \/ Contains(profile_skills_lower[i], required_lower)
          \/ partial_ratio(profile_skills_lower[i], required_lower) >= 80

RECURSIVE MatchedSkills(_, _, _)
MatchedSkills(required, profile_skills_lower, k) ==
    LET Step(before, required_lower) ==
            IF SkillMatches(required_lower, profile_skills_lower)
            THEN Append(before, required[k]) ELSE before
    IN  IF k = 0 THEN <<>>
        ELSE Only({Step(v[1], v[2]) :
                   v \in {<<MatchedSkills(required, profile_skills_lower, k - 1),
                            Lower(required[k])>>}})

_score_skills(c, profile) ==
    LET Result(matched_skills) ==
            [score |-> CapAtOne(Frac(Len(matched_skills), Len(c.required_skills))),
             matched |-> matched_skills]
        Match(profile_skills_lower) ==
            Only({Result(matched_skills) :
                  matched_skills \in {MatchedSkills(c.required_skills,
                                                    profile_skills_lower,
                                                    Len(c.required_skills))}})
    IN  IF c.required_skills = <<>> \/ profile.skills = <<>>
        THEN [score |-> Zero, matched |-> <<>>]
        ELSE Only({Match(profile_skills_lower) :
                   profile_skills_lower \in
                       {[i \in 1..Len(profile.skills) |-> Lower(profile.skills[i])]}})

\* sum(score * weight) * 100 as an exact fraction; weights are thousandths
WeightedTotal(w, scores) ==
    LET L == LCM(LCM(LCM(scores[1].d, scores[2].d), LCM(scores[3].d, scores[4].d)),
                 LCM(scores[5].d, scores[6].d))
        Term(i) == w[Dimensions[i]] * scores[i].n * (L \div scores[i].d)
    IN  Frac(Term(1) + Term(2) + Term(3) + Term(4) + Term(5) + Term(6), 10 * L)

Reason(message, detail) == [message |-> message, detail |-> detail]

NoDetail == <<>>

\* a variant with a message for the company size; C21 fails for it, which
\* tells it from _generate_qualification_reasons
_generate_reasons_with_size(b) ==
    (IF Above(b.job_title_score, 7, 10)
        THEN <<Reason("Strong job title match", <<b.job_title_match>>)>>
     ELSE IF Above(b.job_title_score, 3, 10)
        THEN <<Reason("Partial job title match", <<b.job_title_match>>)>>
     ELSE <<>>)
    \o
    (IF Above(b.industry_score, 7, 10)
        THEN <<Reason("Target industry match", <<b.industry_match>>)>>
     ELSE IF Above(b.industry_score, 3, 10)
        THEN <<Reason("Related industry", <<b.industry_match>>)>>
     ELSE <<>>)
    \o
    (IF Above(b.location_score, 8, 10)
        THEN <<Reason("Perfect location match", <<b.location_match>>)>>
     ELSE IF Above(b.location_score, 5, 10)
        THEN <<Reason("Good location match", <<b.location_match>>)>>
     ELSE <<>>)
    \o
    (IF Above(b.experience_score, 8, 10)
        THEN <<Reason("Excellent experience level", NoDetail)>>
     ELSE IF Above(b.experience_score, 5, 10)
        THEN <<Reason("Good experience level", NoDetail)>>
     ELSE IF Above(b.experience_score, 0, 1)
        THEN <<Reason("Some experience", NoDetail)>>
     ELSE <<>>)
    \o
    (IF Above(b.company_size_score, 0, 1)
        THEN <<Reason("Company size match", <<b.company_size_match>>)>>
     ELSE <<>>)
    \o
    (IF b.skills_matched = <<>> THEN <<>>
     ELSE IF Len(b.skills_matched) = 1
        THEN <<Reason("Has required skill", NoDetail)>>
     ELSE <<Reason("Has N required skills", NoDetail)>>)
    \o
    (IF AtLeast(b.total_score, 80, 1)
        THEN <<Reason("Excellent overall qualification match", NoDetail)>>
     ELSE IF AtLeast(b.total_score, 60, 1)
        THEN <<Reason("Good qualification match", NoDetail)>>
     ELSE IF AtLeast(b.total_score, 40, 1)
        THEN <<Reason("Moderate qualification match", NoDetail)>>
     ELSE <<Reason("Limited qualification match", NoDetail)>>)

_generate_qualification_reasons(b) ==
    (IF Above(b.job_title_score, 7, 10)
        THEN <<Reason("Strong job title match", <<b.job_title_match>>)>>
     ELSE IF Above(b.job_title_score, 3, 10)
        THEN <<Reason("Partial job title match", <<b.job_title_match>>)>>
     ELSE <<>>)
    \o
    (IF Above(b.industry_score, 7, 10)
        THEN <<Reason("Target industry match", <<b.industry_match>>)>>
     ELSE IF Above(b.industry_score, 3, 10)
        THEN <<Reason("Related industry", <<b.industry_match>>)>>
     ELSE <<>>)
    \o
    (IF Above(b.location_score, 8, 10)
        THEN <<Reason("Perfect location match", <<b.location_match>>)>>
     ELSE IF Above(b.location_score, 5, 10)
        THEN <<Reason("Good location match", <<b.location_match>>)>>
     ELSE <<>>)
    \o
    (IF Above(b.experience_score, 8, 10)
        THEN <<Reason("Excellent experience level", NoDetail)>>
     ELSE IF Above(b.experience_score, 5, 10)
        THEN <<Reason("Good experience level", NoDetail)>>
     ELSE IF Above(b.experience_score, 0, 1)
        THEN <<Reason("Some experience", NoDetail)>>
     ELSE <<>>)
    \o
    (IF b.skills_matched = <<>> THEN <<>>
     ELSE IF Len(b.skills_matched) = 1
        THEN <<Reason("Has required skill", NoDetail)>>
     ELSE <<Reason("Has N required skills", NoDetail)>>)
    \o
    (IF AtLeast(b.total_score, 80, 1)
        THEN <<Reason("Excellent overall qualification match", NoDetail)>>
     ELSE IF AtLeast(b.total_score, 60, 1)
        THEN <<Reason("Good qualification match", NoDetail)>>
     ELSE IF AtLeast(b.total_score, 40, 1)
        THEN <<Reason("Moderate qualification match", NoDetail)>>
     ELSE <<Reason("Limited qualification match", NoDetail)>>)

\* ScoreBreakdown(): every field at its default
ScoreBreakdown ==
    [job_title_score |-> Zero, job_title_match |-> None,
     industry_score |-> Zero, industry_match |-> None,
     location_score |-> Zero, location_match |-> None,
     experience_score |-> Zero,
     experience_details |-> ExperienceDetails("none", 0, 0, 0),
     company_size_score |-> Zero, company_size_match |-> None,
     skills_score |-> Zero, skills_matched |-> <<>>,
     total_score |-> Zero, qualification_reasons |-> <<>>]

score_profile(c, w, profile) ==
    LET Scores(s) ==
            [job_title_score |-> s[1].score, job_title_match |-> s[1].match,
             industry_score |-> s[2].score, industry_match |-> s[2].match,
             location_score |-> s[3].score, location_match |-> s[3].match,
             experience_score |-> s[4].score, experience_details |-> s[4].details,
             company_size_score |-> s[5].score, company_size_match |-> s[5].match,
             skills_score |-> s[6].score, skills_matched |-> s[6].matched,
             total_score |->
                 WeightedTotal(w, <<s[1].score, s[2].score, s[3].score,
                                    s[4].score, s[5].score, s[6].score>>),
             qualification_reasons |-> <<>>]
        WithReasons(b) ==
            [b EXCEPT !.qualification_reasons = _generate_qualification_reasons(b)]
        Breakdown(s) == Only({WithReasons(b) : b \in {Scores(s)}})
    IN  Only({Breakdown(s) :
              s \in {<<_score_job_title(c, profile), _score_industry(c, profile),
                       _score_location(c, profile), _score_experience(c, profile),
                       _score_company_size(c, profile), _score_skills(c, profile)>>}})

\* QualifiedLead(profile, score_breakdown); None is <<>>
QualifiedLead(profile, b) == <<[profile |-> profile, score_breakdown |-> b]>>

NoLead == <<>>

\* a variant that compares with > instead of >=; C1 fails for it, which tells it
\* from qualify_lead
qualify_lead_strict(c, w, profile, threshold) ==
    LET Decide(score_breakdown) ==
            IF Above(score_breakdown.total_score, threshold, 1)
            THEN QualifiedLead(profile, score_breakdown)
            ELSE NoLead
    IN  IF ~profile.is_valid THEN NoLead
        ELSE Only({Decide(score_breakdown) :
                   score_breakdown \in {score_profile(c, w, profile)}})

\* qualify_lead(profile, min_score): min_score is a whole number of points
qualify_lead(c, w, profile, threshold) ==
    LET Decide(score_breakdown) ==
            IF AtLeast(score_breakdown.total_score, threshold, 1)
            THEN QualifiedLead(profile, score_breakdown)
            ELSE NoLead
    IN  IF ~profile.is_valid THEN NoLead
        ELSE Only({Decide(score_breakdown) :
                   score_breakdown \in {score_profile(c, w, profile)}})

----------------------------------------------------------------------------
(* linkedin_scraper.py: the extractors, as functions of the page *)

\* JSON values beside strings: an object with its members, an array with its
\* items, and script text that json.loads rejects
JObject(members) == [kind |-> "dict", members |-> members]

JArray(items) == [kind |-> "array", items |-> items]

JInvalid == [kind |-> "invalid"]

IsDict(v) == v.kind = "dict"

IsPerson(item) ==
    IsDict(item) /\ Get(item.members, "@type") = Str(<<"P", "e", "r", "s", "o", "n">>)

\* ', '.join(location_parts)
RECURSIVE JoinComma(_)
JoinComma(parts) ==
    IF Len(parts) = 1 THEN parts[1]
    ELSE JoinComma(SubSeq(parts, 1, Len(parts) - 1)) \o <<",", " ">> \o parts[Len(parts)]

AddressKeys == <<"addressLocality", "addressRegion", "addressCountry">>

\* the address parts that are given, in the order of AddressKeys
LocationParts(address) ==
    LET Part(i) == IF AddressKeys[i] \in DOMAIN address.members
                   THEN <<address.members[AddressKeys[i]].text>> ELSE <<>>
    IN  Part(1) \o Part(2) \o Part(3)

\* the names of the alumniOf items: item.get('name', str(item)) for an object,
\* str(item) otherwise
AlumniNames(items) ==
    [i \in DOMAIN items |->
        IF IsDict(items[i]) THEN Get(items[i].members, "name").text
        ELSE items[i].text]

\* _parse_person_json_ld: the keys of the Person that are given, renamed
_parse_person_json_ld(person_data) ==
    LET m == person_data.members
        Name == IF "name" \in DOMAIN m THEN [k \in {"name"} |-> m["name"]]
                ELSE EmptyDict
        JobTitle == IF "jobTitle" \in DOMAIN m
                    THEN [k \in {"current_position"} |-> m["jobTitle"]]
                    ELSE EmptyDict
        Company ==
            IF "worksFor" \notin DOMAIN m THEN EmptyDict
            ELSE IF IsDict(m["worksFor"]) /\ "name" \in DOMAIN m["worksFor"].members
            THEN [k \in {"current_company"} |-> m["worksFor"].members["name"]]
            ELSE IF m["worksFor"].kind = "str"
            THEN [k \in {"current_company"} |-> m["worksFor"]]
            ELSE EmptyDict
        Location ==
            IF "address" \notin DOMAIN m THEN EmptyDict
            ELSE IF IsDict(m["address"])
            THEN IF LocationParts(m["address"]) # <<>>
                 THEN [k \in {"location"} |->
                          Str(JoinComma(LocationParts(m["address"])))]
                 ELSE EmptyDict
            ELSE IF m["address"].kind = "str"
            THEN [k \in {"location"} |-> m["address"]]
            ELSE EmptyDict
        Education ==
            IF "alumniOf" \notin DOMAIN m THEN EmptyDict
            ELSE IF m["alumniOf"].kind = "array"
            THEN [k \in {"education"} |-> List(AlumniNames(m["alumniOf"].items))]
            ELSE IF IsDict(m["alumniOf"]) /\ "name" \in DOMAIN m["alumniOf"].members
            THEN [k \in {"education"} |-> List(<<m["alumniOf"].members["name"].text>>)]
            ELSE EmptyDict
    IN  Update(Update(Update(Update(Name, JobTitle), Company), Location), Education)

\* the first Person of an array's items, parsed; nothing when there is none
FirstPersonOf(items) ==
    LET persons == {i \in DOMAIN items : IsPerson(items[i])}
    IN  IF persons = {} THEN EmptyDict
        ELSE _parse_person_json_ld(
                 items[CHOOSE i \in persons : \A j \in persons : i <= j])

\* the body of the loop of _extract_from_json_ld for one script block.  The
\* branches are tested in the order of the code: every object takes the
\* first one
JsonLdBlock(data, json_data) ==
    IF json_data.kind = "invalid" THEN data
    ELSE IF IsDict(json_data)
    THEN IF IsPerson(json_data)
         THEN Update(data, _parse_person_json_ld(json_data))
         ELSE data
    ELSE IF IsDict(json_data) /\ "@graph" \in DOMAIN json_data.members
    THEN Update(data, FirstPersonOf(json_data.members["@graph"].items))
    ELSE IF json_data.kind = "array"
    THEN Update(data, FirstPersonOf(json_data.items))
    ELSE data

\* _extract_from_json_ld over the page's ld+json script blocks, in document
\* order
RECURSIVE _extract_from_json_ld(_)
_extract_from_json_ld(scripts) ==
    IF scripts = <<>> THEN EmptyDict
    ELSE JsonLdBlock(_extract_from_json_ld(SubSeq(scripts, 1, Len(scripts) - 1)),
                     scripts[Len(scripts)])

\* str.strip()
Strip(s) ==
    LET inked == {i \in 1..Len(s) : ~IsWhitespace(s[i])}
    IN  IF inked = {} THEN <<>>
        ELSE SubSeq(s, CHOOSE i \in inked : \A j \in inked : i <= j,
                       CHOOSE i \in inked : \A j \in inked : i >= j)

\* the loop over a field's selectors: elements[i] is the text content of the
\* element the i-th selector finds (None when it finds none); the first text
\* that is not blank is stored stripped, and the loop breaks
FirstText(key, elements) ==
    LET found == {i \in DOMAIN elements :
                     elements[i].kind = "str" /\ Strip(elements[i].text) # <<>>}
    IN  IF found = {} THEN EmptyDict
        ELSE [k \in {key} |->
                 Str(Strip(elements[CHOOSE i \in found : \A j \in found : i <= j].text))]

\* a variant that goes on to the later entries of the container until one
\* gives a title; C26 fails for it, which tells it from ExperienceOf
ExperienceOfAnyEntry(containers) ==
    LET filled == {i \in DOMAIN containers : containers[i] # <<>>}
    IN  IF filled = {} THEN EmptyDict
        ELSE LET entries ==
                     containers[CHOOSE i \in filled : \A j \in filled : i <= j]
                 titled == {e \in DOMAIN entries :
                               FirstText("current_position", entries[e].job_title)
                                   # EmptyDict}
                 job == IF titled = {} THEN entries[1]
                        ELSE entries[CHOOSE e \in titled : \A f \in titled : e <= f]
             IN  Update(FirstText("current_position", job.job_title),
                        FirstText("current_company", job.company_name))

\* the experience block: the first container selector that finds entries, and
\* of these the first entry
ExperienceOf(containers) ==
    LET filled == {i \in DOMAIN containers : containers[i] # <<>>}
    IN  IF filled = {} THEN EmptyDict
        ELSE LET first_job ==
                     containers[CHOOSE i \in filled : \A j \in filled : i <= j][1]
             IN  Update(FirstText("current_position", first_job.job_title),
                        FirstText("current_company", first_job.company_name))

\* _extract_with_css_selectors over what the selectors find in the page
_extract_with_css_selectors(dom) ==
    Update(Update(Update(FirstText("name", dom.name),
                         FirstText("headline", dom.headline)),
                  FirstText("location", dom.location)),
           ExperienceOf(dom.experience_container))

\* _extract_from_content: captures[i] is group 1 of the first match of the
\* i-th name pattern in the page content (None without a match); the first
\* capture of two words or more is the name
_extract_from_content(captures) ==
    LET accepted == {i \in DOMAIN captures :
                        /\ captures[i].kind = "str"
                        /\ SplitCount(Strip(captures[i].text)) >= 2}
    IN  IF accepted = {} THEN EmptyDict
        ELSE [k \in {"name"} |->
                 Str(Strip(captures[CHOOSE i \in accepted :
                                        \A j \in accepted : i <= j].text))]

----------------------------------------------------------------------------
(* State *)

VARIABLES
    \* LinkedInScraper: the targets not yet handed to the handler, the results
    queue, results,
    \* the clock (time.time()) and the scraper's last_request_time
    now, last_request_time,
    \* the handler invocation in progress: its position, its target, the
    \* attempts the retry wrapper has made, whether an exception left the body
    \* of _extract_profile_data, and whether page.goto failed
    pc, url, attempts, escaped, load_failed,
    \* the locals of _extract_profile_data: profile, extracted_data, what each
    \* extractor returned (json_ld_data, css_data, content_data) and which of
    \* them returned at all, and what _validate_profile_data returned
    profile, extracted_data, tier_data, ran, validation,
    \* the warnings the attempt has logged about the fetch: "blocked" (a
    \* redirect to a login wall was detected), "wait_timeout" (networkidle was
    \* not reached), or the name of a tier whose extractor raised
    log,
    \* the rate gate's workers: position, wake-up time of the sleep, requests
    \* dispatched; and the times of all dispatches in order
    wpc, wake, served, dispatches,
    \* the scoring engine: whether it was constructed, its weights and
    \* criteria, the profile last scored or qualified, the threshold, the
    \* breakdown and the lead returned
    engine, weights, criteria, scored, min_score, breakdown, lead,
    \* the calls of score_profile made on the engine, the profile as it was
    \* handed to the first call, and the breakdown the first call returned
    calls, given, first,
    \* main(): its position, the target list, the weights and the result limit
    \* read from the input, the ProcessingStats, the qualified leads, the items
    \* pushed to the dataset, and the key-value store's PROCESSING_STATS record
    mpc, profile_urls, input_weights, max_results, stats, qualified_leads,
    dataset, key_value,
    \* the page the browser has loaded for the target: its ld+json script
    \* blocks, what the selectors find in it, and what the name patterns
    \* capture in its content
    page

extractVars ==
    <<queue, results, pc, url, attempts, escaped, load_failed, profile,
      extracted_data, tier_data, ran, validation, log, page>>

clockVars == <<now, last_request_time>>

rateVars == <<wpc, wake, served, dispatches>>

againVars == <<calls, given, first>>

scoreVars ==
    <<engine, weights, criteria, scored, min_score, breakdown, lead, againVars>>

mainVars ==
    <<mpc, profile_urls, input_weights, max_results, stats, qualified_leads,
      dataset, key_value>>

vars == <<extractVars, clockVars, rateVars, scoreVars, mainVars, page>>

----------------------------------------------------------------------------
(* models.py: LinkedInProfile *)

\* LinkedInProfile(url=u): every other field at its default
LinkedInProfile(u) ==
    [url |-> u, name |-> None, headline |-> None, current_position |-> None,
     current_company |-> None, location |-> None, industry |-> None,
     experience_years |-> None, company_size |-> None, skills |-> <<>>,
     education |-> List(<<>>), connections |-> None, about |-> None,
     extraction_errors |-> <<>>, is_valid |-> TRUE]

----------------------------------------------------------------------------
(* linkedin_scraper.py: the scraper *)

\* request_delay, the default of LinkedInScraper.__init__
RequestDelay == 3

\* stop_after_attempt(3) of the retry wrapper of _extract_profile_data
RetryCap == 3

\* the headline limit of _validate_profile_data
HeadlineLimit == 200

Tiers == <<"json_ld", "css_selectors", "content_based">>

Fields ==
    {"name", "headline", "current_position", "current_company", "location",
     "education"}

\* a variant that rejects a headline of exactly HeadlineLimit characters;
\* C7 fails for it, which tells it from _validate_profile_data
_validate_headline_off_by_one(data) ==
    LET name == Get(data, "name")
        headline == Get(data, "headline")
    IN  IF ~Truthy(name) THEN "rejected"
        ELSE IF name.kind # "str" THEN "raised"
        ELSE IF SplitCount(name.text) < 2 \/ Len(name.text) < 3 THEN "rejected"
        ELSE IF Truthy(headline) /\ headline.kind \notin {"str", "list"}
             THEN "raised"
        ELSE IF Truthy(headline) /\ Len(headline.text) >= HeadlineLimit
             THEN "rejected"
        ELSE "accepted"

\* _validate_profile_data: "accepted" (True), "rejected" (False), or "raised"
\* when name.split() or len(headline) is applied to a value that has neither
_validate_profile_data(data) ==
    LET name == Get(data, "name")
        headline == Get(data, "headline")
    IN  IF ~Truthy(name) THEN "rejected"
        ELSE IF name.kind # "str" THEN "raised"
        ELSE IF SplitCount(name.text) < 2 \/ Len(name.text) < 3 THEN "rejected"
        ELSE IF Truthy(headline) /\ headline.kind \notin {"str", "list"}
             THEN "raised"
        ELSE IF Truthy(headline) /\ Len(headline.text) > HeadlineLimit
             THEN "rejected"
        ELSE "accepted"

\* strategy 1: extracted_data.update(json_ld_data)
MergeJsonLd(data, json_ld_data) == Update(data, json_ld_data)

\* a variant that lets a lower tier overwrite (extracted_data.update); C2
\* fails for it, which tells it from MergeLower
MergeLowerOverwrite(data, tier) == Update(data, tier)

\* strategies 2 and 3: "if key not in extracted_data and value"
MergeLower(data, tier) ==
    [k \in DOMAIN data \union {f \in DOMAIN tier : Truthy(tier[f])} |->
        IF k \in DOMAIN data THEN data[k] ELSE tier[k]]

\* "Map extracted data to profile object"
MapToProfile(p, data) ==
    [p EXCEPT
        !.name = IF Truthy(Get(data, "name")) THEN data["name"] ELSE @,
        !.headline = IF Truthy(Get(data, "headline")) THEN data["headline"] ELSE @,
        !.current_position =
            IF Truthy(Get(data, "current_position"))
            THEN data["current_position"] ELSE @,
        !.current_company =
            IF Truthy(Get(data, "current_company"))
            THEN data["current_company"] ELSE @,
        !.location = IF Truthy(Get(data, "location")) THEN data["location"] ELSE @,
        !.education = IF Truthy(Get(data, "education")) THEN data["education"] ELSE @]

\* "Estimate additional fields"
EstimateFields(p) ==
    [p EXCEPT !.experience_years = _estimate_experience_years(p),
              !.industry = _extract_industry(p)]

\* the "except Exception" clause that closes the body of _extract_profile_data
CatchGeneral(p) ==
    [p EXCEPT !.is_valid = FALSE,
              !.extraction_errors = Append(@, "General extraction error")]

\* whether that clause lets the exception leave the body (it never re-raises)
CatchGeneralEscapes == FALSE

\* the except clause of profile_handler: the error profile
ErrorProfile(u) ==
    [LinkedInProfile(u) EXCEPT !.is_valid = FALSE,
                               !.extraction_errors = <<"handler error">>]

\* a variant that records only valid profiles; C9 fails for it, which tells it
\* from ResultsAppend
ResultsAppendValidOnly(res, p) == IF p.is_valid THEN Append(res, p) ELSE res

\* self.results.append(profile)
ResultsAppend(res, p) == Append(res, p)

NoTierData == [t \in {Tiers[i] : i \in 1..Len(Tiers)} |-> EmptyDict]

\* the locals of _extract_profile_data at the start of an attempt on target u
StartAttempt(u) ==
    /\ profile' = LinkedInProfile(u)
    /\ extracted_data' = EmptyDict
    /\ tier_data' = NoTierData
    /\ ran' = {}
    /\ validation' = "none"
    /\ log' = {}
    /\ escaped' = FALSE
    /\ load_failed' = FALSE

\* an exception inside the body: the closing except clause ends the attempt
Fail ==
    /\ profile' = CatchGeneral(profile)
    /\ escaped' = CatchGeneralEscapes
    /\ pc' = "return"

\* crawlee hands the next target to profile_handler, which calls
\* _extract_profile_data through the retry wrapper (first attempt)
HandlerStart ==
    /\ pc = "idle"
    /\ queue # <<>>
    /\ url' = Head(queue)
    /\ queue' = Tail(queue)
    /\ attempts' = 1
    /\ StartAttempt(Head(queue))
    /\ pc' = "rate"
    /\ UNCHANGED <<results, clockVars, rateVars, scoreVars, mainVars, page>>

\* _respect_rate_limit with a single handler running: sleep the remainder of
\* the window, then stamp last_request_time
RespectRateLimit ==
    /\ pc = "rate"
    /\ LET elapsed == now - last_request_time
           woken == IF elapsed < RequestDelay
                    THEN now + (RequestDelay - elapsed) ELSE now
       IN  /\ now' = woken
           /\ last_request_time' = woken
    /\ pc' = "navigate"
    /\ UNCHANGED <<queue, results, url, attempts, escaped, load_failed, profile,
                   extracted_data, tier_data, ran, validation, log, rateVars,
                   scoreVars, mainVars, page>>

\* cookie, headers, page.goto, page.title and the check for a block: the page
\* loads ("loaded"), loads on a login wall, which is logged and passed over
\* ("blocked"), or one of the calls raises, e.g. the navigation times out
\* ("failed")
Navigate(outcomes) ==
    /\ pc = "navigate"
    /\ \E outcome \in outcomes :
        IF outcome = "failed"
        THEN /\ Fail
             /\ load_failed' = TRUE
             /\ UNCHANGED log
        ELSE /\ pc' = "wait"
             /\ log' = IF outcome = "blocked" THEN log \union {"blocked"} ELSE log
             /\ UNCHANGED <<profile, escaped, load_failed>>
    /\ UNCHANGED <<queue, results, url, attempts, extracted_data, tier_data, ran,
                   validation, clockVars, rateVars, scoreVars, mainVars, page>>

\* page.wait_for_load_state('networkidle'): its timeout is caught and
\* extraction proceeds; then page.content(), which may raise
WaitForContent(outcomes) ==
    /\ pc = "wait"
    /\ \E outcome \in outcomes :
        IF outcome = "content_error"
        THEN /\ Fail
             /\ UNCHANGED log
        ELSE /\ pc' = "json"
             /\ log' = IF outcome = "timeout"
                       THEN log \union {"wait_timeout"} ELSE log
             /\ UNCHANGED <<profile, escaped>>
    /\ UNCHANGED <<queue, results, url, attempts, load_failed, extracted_data,
                   tier_data, ran, validation, clockVars, rateVars, scoreVars, mainVars, page>>

\* strategy 1: _extract_from_json_ld returns a dict, or raises: the except
\* clause of the strategy logs a warning and nothing else
ExtractJsonLd(outputs) ==
    /\ pc = "json"
    /\ \/ \E json_ld_data \in outputs :
            /\ extracted_data' = MergeJsonLd(extracted_data, json_ld_data)
            /\ tier_data' = [tier_data EXCEPT !["json_ld"] = json_ld_data]
            /\ ran' = ran \union {"json_ld"}
            /\ UNCHANGED log
       \/ /\ log' = log \union {"json_ld"}
          /\ UNCHANGED <<extracted_data, tier_data, ran>>
    /\ pc' = "css"
    /\ UNCHANGED <<queue, results, url, attempts, escaped, load_failed, profile,
                   validation, clockVars, rateVars, scoreVars, mainVars, page>>

\* strategy 2: _extract_with_css_selectors returns a dict, or raises (caught)
ExtractCss(outputs) ==
    /\ pc = "css"
    /\ \/ \E css_data \in outputs :
            /\ extracted_data' = MergeLower(extracted_data, css_data)
            /\ tier_data' = [tier_data EXCEPT !["css_selectors"] = css_data]
            /\ ran' = ran \union {"css_selectors"}
            /\ UNCHANGED log
       \/ /\ log' = log \union {"css_selectors"}
          /\ UNCHANGED <<extracted_data, tier_data, ran>>
    /\ pc' = "content"
    /\ UNCHANGED <<queue, results, url, attempts, escaped, load_failed, profile,
                   validation, clockVars, rateVars, scoreVars, mainVars, page>>

\* strategy 3, only "if not extracted_data.get('name')": _extract_from_content
\* returns a dict, or raises (caught)
ExtractContent(outputs) ==
    /\ pc = "content"
    /\ IF ~Truthy(Get(extracted_data, "name"))
       THEN \/ \E content_data \in outputs :
                 /\ extracted_data' = MergeLower(extracted_data, content_data)
                 /\ tier_data' = [tier_data EXCEPT !["content_based"] = content_data]
                 /\ ran' = ran \union {"content_based"}
                 /\ UNCHANGED log
            \/ /\ log' = log \union {"content_based"}
               /\ UNCHANGED <<extracted_data, tier_data, ran>>
       ELSE UNCHANGED <<extracted_data, tier_data, ran, log>>
    /\ pc' = "finalize"
    /\ UNCHANGED <<queue, results, url, attempts, escaped, load_failed, profile,
                   validation, clockVars, rateVars, scoreVars, mainVars, page>>

\* map the merged record to the profile, estimate the derived fields, validate
Finalize ==
    /\ pc = "finalize"
    /\ LET mapped == EstimateFields(MapToProfile(profile, extracted_data))
           verdict == _validate_profile_data(extracted_data)
       IN  /\ validation' = verdict
           /\ IF verdict = "raised"
              THEN /\ profile' = CatchGeneral(mapped)
                   /\ escaped' = CatchGeneralEscapes
              ELSE /\ profile' = [mapped EXCEPT !.is_valid = (verdict = "accepted")]
                   /\ UNCHANGED escaped
    /\ pc' = "return"
    /\ UNCHANGED <<queue, results, url, attempts, load_failed, extracted_data,
                   tier_data, ran, log, clockVars, rateVars, scoreVars, mainVars, page>>

\* the attempt ends.  The retry wrapper calls again only when an exception
\* left the body and fewer than RetryCap attempts were made; otherwise
\* profile_handler appends the returned profile, or its error profile when the
\* wrapper gave up.  The locals keep their last values until the next target.
HandlerReturn ==
    /\ pc = "return"
    /\ IF escaped /\ attempts < RetryCap
       THEN /\ attempts' = attempts + 1
            /\ StartAttempt(url)
            /\ pc' = "rate"
            /\ UNCHANGED results
       ELSE /\ results' =
                ResultsAppend(results, IF escaped THEN ErrorProfile(url) ELSE profile)
            /\ pc' = "idle"
            /\ UNCHANGED <<attempts, escaped, load_failed, profile, extracted_data,
                           tier_data, ran, validation, log>>
    /\ UNCHANGED <<queue, url, clockVars, rateVars, scoreVars, mainVars, page>>

----------------------------------------------------------------------------
(* The rate gate shared by concurrent handlers: _respect_rate_limit *)

Workers == 1..NumWorkers

\* a handler calls _respect_rate_limit: up to the await nothing else runs.
\* Either the window has passed and it stamps last_request_time at once, or
\* it computes the remaining delay and goes to sleep
RateEnter(w) ==
    /\ wpc[w] = "ready"
    /\ served[w] < MaxRequests
    /\ LET elapsed == now - last_request_time
       IN  IF elapsed < RequestDelay
           THEN /\ wake' = [wake EXCEPT ![w] = now + (RequestDelay - elapsed)]
                /\ wpc' = [wpc EXCEPT ![w] = "sleeping"]
                /\ UNCHANGED <<last_request_time, dispatches, served>>
           ELSE /\ last_request_time' = now
                /\ dispatches' = Append(dispatches, now)
                /\ served' = [served EXCEPT ![w] = @ + 1]
                /\ wpc' = [wpc EXCEPT ![w] = "dispatched"]
                /\ UNCHANGED wake
    /\ UNCHANGED <<now, extractVars, scoreVars, mainVars>>

\* asyncio.sleep(delay) is over: stamp last_request_time and return
RateWake(w) ==
    /\ wpc[w] = "sleeping"
    /\ now >= wake[w]
    /\ last_request_time' = now
    /\ dispatches' = Append(dispatches, now)
    /\ served' = [served EXCEPT ![w] = @ + 1]
    /\ wpc' = [wpc EXCEPT ![w] = "dispatched"]
    /\ UNCHANGED <<now, wake, extractVars, scoreVars, mainVars>>

\* the handler finishes its target; crawlee hands the worker the next one
RateNext(w) ==
    /\ wpc[w] = "dispatched"
    /\ wpc' = [wpc EXCEPT ![w] = "ready"]
    /\ UNCHANGED <<now, last_request_time, wake, served, dispatches, extractVars,
                   scoreVars, mainVars>>

\* time passes
Tick ==
    /\ now < RequestDelay + MaxTicks
    /\ now' = now + 1
    /\ UNCHANGED <<last_request_time, rateVars, extractVars, scoreVars, mainVars>>

----------------------------------------------------------------------------
(* main.py: the run *)

\* a variant that falls back to the default weights when the total is not
\* positive; C13 fails for it, which tells it from Normalized
NormalizedOrDefault(w) ==
    IF validate(w) THEN w
    ELSE IF WeightTotal(w) <= 0 THEN DefaultWeights
    ELSE [d \in DOMAIN w |-> (w[d] * 1000) \div WeightTotal(w)]

\* the normalisation of the weights in main(): when they do not validate and
\* their total is positive, each weight is divided by the total.  Weights are
\* in thousandths, so w / total is w * 1000 \div total; the inputs of the model
\* are chosen so that the division is exact
Normalized(w) ==
    IF validate(w) \/ WeightTotal(w) <= 0
    THEN w
    ELSE [d \in DOMAIN w |-> (w[d] * 1000) \div WeightTotal(w)]

\* ProcessingStats(total_profiles=n); average_score and
\* processing_time_seconds are left out
ProcessingStats(n) ==
    [total_profiles |-> n, successful_extractions |-> 0,
     failed_extractions |-> 0, qualified_leads |-> 0]

NoStats == <<>>

NoRecord == <<>>

Max(a, b) == IF a >= b THEN a ELSE b

\* ProcessingStats.to_dict: the counters and the two rates, in percent
to_dict(s) ==
    [total_profiles |-> s.total_profiles,
     successful_extractions |-> s.successful_extractions,
     failed_extractions |-> s.failed_extractions,
     qualified_leads |-> s.qualified_leads,
     success_rate |->
         Frac(s.successful_extractions * 100, Max(s.total_profiles, 1)),
     qualification_rate |->
         Frac(s.qualified_leads * 100, Max(s.successful_extractions, 1))]

\* Actor.set_value('PROCESSING_STATS', value)
set_value(store, value) == <<value>>

\* a variant that raises again without storing; C15 fails for it, which tells
\* it from StoreOnFailure
StoreNothing(store, s) == store

\* the except clause of main(): the statistics are stored, then the exception
\* is raised again
StoreOnFailure(store, s) == set_value(store, to_dict(s))

CountValid(profiles, valid) ==
    Cardinality({i \in DOMAIN profiles : profiles[i].is_valid = valid})

\* the scoring loop of main() from profiles[k] on: invalid profiles are passed
\* over, qualified leads are collected, and the loop breaks once max leads
\* were collected
RECURSIVE ScoringLoop(_, _, _, _, _, _, _)
ScoringLoop(profiles, k, leads, c, w, threshold, max) ==
    LET Step(qualified_lead) ==
            IF qualified_lead = NoLead
            THEN ScoringLoop(profiles, k + 1, leads, c, w, threshold, max)
            ELSE IF Len(leads) + 1 >= max
                 THEN leads \o qualified_lead
                 ELSE ScoringLoop(profiles, k + 1, leads \o qualified_lead,
                                  c, w, threshold, max)
    IN  IF k > Len(profiles) THEN leads
        ELSE IF ~profiles[k].is_valid
             THEN ScoringLoop(profiles, k + 1, leads, c, w, threshold, max)
             ELSE Only({Step(qualified_lead) :
                        qualified_lead \in
                            {qualify_lead(c, w, profiles[k], threshold)}})

\* the dataset items of the leads: lead.to_dict(), of which the url and the
\* total are kept, or the minimal item when serializing the lead raised
DatasetItems(leads, unserializable) ==
    [i \in DOMAIN leads |->
        [url |-> leads[i].profile.url,
         total_score |-> leads[i].score_breakdown.total_score,
         error |-> i \in unserializable]]

\* the input is read: targets, criteria, weights (normalised when they do not
\* validate), threshold and result limit
MainReadInput(urls, c, w, m, max) ==
    /\ mpc = "input"
    /\ profile_urls' = urls
    /\ criteria' = c
    /\ input_weights' = w
    /\ weights' = Normalized(w)
    /\ min_score' = m
    /\ max_results' = max
    /\ mpc' = "components"
    /\ UNCHANGED <<engine, scored, breakdown, lead, againVars, stats,
                   qualified_leads, dataset, key_value, extractVars, clockVars,
                   rateVars>>

\* the scraper and the engine are constructed, then the statistics.  The
\* engine's ValueError is raised outside the try block and leaves main()
MainComponents ==
    /\ mpc = "components"
    /\ engine' = IF validate(weights) THEN "ready" ELSE "refused"
    /\ IF validate(weights)
       THEN /\ stats' = <<ProcessingStats(Len(profile_urls))>>
            /\ mpc' = "scrape"
       ELSE /\ mpc' = "raised"
            /\ UNCHANGED stats
    /\ UNCHANGED <<weights, criteria, scored, min_score, breakdown, lead,
                   againVars, profile_urls, input_weights, max_results, qualified_leads,
                   dataset, key_value, extractVars, clockVars, rateVars>>

\* scraper.scrape_profiles(profile_urls) is called: the targets are enqueued
MainScrape ==
    /\ mpc = "scrape"
    /\ queue' = profile_urls
    /\ results' = <<>>
    /\ mpc' = "scraping"
    /\ UNCHANGED <<pc, url, attempts, escaped, load_failed, profile,
                   extracted_data, tier_data, ran, validation, log, profile_urls,
                   input_weights, max_results, stats, qualified_leads, dataset,
                   key_value, page, clockVars, rateVars, scoreVars>>

\* scrape_profiles returns the results: the extractions are counted
MainScraped ==
    /\ mpc = "scraping"
    /\ queue = <<>>
    /\ pc = "idle"
    /\ stats' = <<[stats[1] EXCEPT
                     !.successful_extractions = CountValid(results, TRUE),
                     !.failed_extractions = CountValid(results, FALSE)]>>
    /\ mpc' = "score"
    /\ UNCHANGED <<profile_urls, input_weights, max_results, qualified_leads,
                   dataset, key_value, extractVars, clockVars, rateVars,
                   scoreVars>>

\* the scoring loop runs over the profiles and the leads are counted
MainScore ==
    /\ mpc = "score"
    /\ qualified_leads' =
           ScoringLoop(results, 1, <<>>, criteria, weights, min_score, max_results)
    /\ stats' = <<[stats[1] EXCEPT !.qualified_leads = Len(qualified_leads')]>>
    /\ mpc' = "output"
    /\ UNCHANGED <<profile_urls, input_weights, max_results, dataset, key_value,
                   extractVars, clockVars, rateVars, scoreVars>>

\* the leads are serialized (a lead that cannot be gets the minimal item),
\* pushed to the dataset when there are any, and the final statistics stored
MainOutput ==
    /\ mpc = "output"
    /\ \E unserializable \in SUBSET DOMAIN qualified_leads :
           dataset' = DatasetItems(qualified_leads, unserializable)
    /\ key_value' = set_value(key_value, to_dict(stats[1]))
    /\ mpc' = "done"
    /\ UNCHANGED <<profile_urls, input_weights, max_results, stats,
                   qualified_leads, extractVars, clockVars, rateVars, scoreVars>>

\* an exception inside the try block of main(): raised by scrape_profiles, by
\* the scoring loop or by Actor.push_data.  The except clause stores the
\* statistics and raises again
MainFail ==
    /\ mpc \in {"scraping", "score", "output"}
    /\ key_value' = StoreOnFailure(key_value, stats[1])
    /\ mpc' = "raised"
    /\ UNCHANGED <<profile_urls, input_weights, max_results, stats,
                   qualified_leads, dataset, extractVars, clockVars, rateVars,
                   scoreVars>>

----------------------------------------------------------------------------
(* The scoring engine's operations *)

\* LeadScoringEngine(criteria, weights): raises ValueError, and yields no
\* engine, when the weights do not validate
NewEngine(c, w) ==
    /\ engine = "none"
    /\ criteria' = c
    /\ weights' = w
    /\ engine' = IF validate(w) THEN "ready" ELSE "refused"
    /\ UNCHANGED <<scored, min_score, breakdown, lead, againVars, extractVars,
                   clockVars, rateVars, mainVars>>

\* a variant in which the call uses up the profile's skills; C16 fails for
\* it, which tells it from ProfileAfterScoring
ProfileSkillsConsumed(p) == [p EXCEPT !.skills = <<>>]

\* the profile object when score_profile returns: no method of the engine
\* assigns to it
ProfileAfterScoring(p) == p

\* engine.score_profile(p), the first call on the engine
ScoreProfile(p) ==
    /\ engine = "ready"
    /\ scored[1] = "none"
    /\ scored' = <<"score_profile", ProfileAfterScoring(p)>>
    /\ breakdown' = score_profile(criteria, weights, p)
    /\ calls' = 1
    /\ given' = p
    /\ first' = breakdown'
    /\ UNCHANGED <<engine, weights, criteria, min_score, lead, extractVars,
                   clockVars, rateVars, mainVars>>

\* engine.score_profile, called once more with the same profile object
ScoreAgain ==
    /\ engine = "ready"
    /\ scored[1] = "score_profile"
    /\ calls = 1
    /\ scored' = <<"score_profile", ProfileAfterScoring(scored[2])>>
    /\ breakdown' = score_profile(criteria, weights, scored[2])
    /\ calls' = 2
    /\ UNCHANGED <<engine, weights, criteria, min_score, lead, given, first,
                   extractVars, clockVars, rateVars, mainVars>>

\* engine.qualify_lead(p, m), the first call on the engine; it calls
\* score_profile when the profile is valid
QualifyLead(p, m) ==
    /\ engine = "ready"
    /\ scored[1] = "none"
    /\ scored' = <<"qualify_lead", ProfileAfterScoring(p)>>
    /\ min_score' = m
    /\ lead' = qualify_lead(criteria, weights, p, m)
    /\ breakdown' = IF p.is_valid THEN score_profile(criteria, weights, p)
                    ELSE ScoreBreakdown
    /\ calls' = IF p.is_valid THEN 1 ELSE 0
    /\ given' = p
    /\ first' = breakdown'
    /\ UNCHANGED <<engine, weights, criteria, extractVars, clockVars, rateVars,
                   mainVars>>

----------------------------------------------------------------------------
(* Inputs *)

\* all dicts that give some of the keys of opts one of the key's values
DictsOver(opts) ==
    UNION {{d \in [K -> UNION {opts[k] : k \in K}] : \A k \in K : d[k] \in opts[k]} :
           K \in SUBSET DOMAIN opts}

HeadlineAtLimit == Repeat("x", HeadlineLimit)

HeadlineOverLimit == Repeat("x", HeadlineLimit + 1)

\* what _extract_from_json_ld can return: any of its keys, with whatever the
\* page's JSON holds (an empty string, one word, a full name, a non-string)
JsonLdOutputs ==
    DictsOver([name |-> {Str(<<>>), Str(<<"A", "l">>), Str(<<"A", "l", " ", "B", "o">>), NonStr},
               current_position |-> {Str(<<>>), Str(<<"C", "E", "O">>)},
               current_company |-> {Str(<<"A", "c", "m", "e">>)},
               location |-> {Str(<<>>), Str(<<"R", "o", "m", "e", ",", " ", "I", "T">>)},
               education |-> {List(<<"M", "I", "T">>)}])

\* what _extract_with_css_selectors can return: stripped, non-empty texts;
\* the headlines at and over the limit come with or without a name
CssOutputs ==
    DictsOver([name |-> {Str(<<"C", "y", " ", "D", "i">>)},
               headline |-> {Str(<<"S", "e", "n", "i", "o", "r", " ", "d", "e", "v", ",", " ", "7", " ", "y", "r", "s", " ", "e", "x", "p", "e", "r", "i", "e", "n", "c", "e">>)},
               current_position |-> {Str(<<"C", "T", "O">>)},
               current_company |-> {Str(<<"B", "o", "l", "t">>)},
               location |-> {Str(<<"O", "s", "l", "o">>)}])
    \union DictsOver([name |-> {Str(<<"C", "y", " ", "D", "i">>)},
                      headline |-> {Str(HeadlineAtLimit), Str(HeadlineOverLimit)}])

\* what _extract_from_content can return: a name of two words or more
ContentOutputs == DictsOver([name |-> {Str(<<"E", "d", " ", "F", "u">>)}])

\* the same for the run of several targets, with fewer pages
RunJsonLdOutputs == DictsOver([name |-> {Str(<<"A", "l", " ", "B", "o">>), NonStr}])

RunCssOutputs == DictsOver([headline |-> {Str(<<"S", "a", "l", "e", "s", " ", "l", "e", "a", "d">>)}])

RunContentOutputs == ContentOutputs

\* how the fetch of a page can go: every outcome for the run of several
\* targets, and for the single target the outcomes without a warning
RunNavigation == {"loaded", "blocked", "failed"}

RunWait == {"idle", "timeout", "content_error"}

PlainNavigation == {"loaded", "failed"}

PlainWait == {"idle", "content_error"}

\* pages: what the three extractors read.  Elements(n, found) is what the n
\* selectors of a field find: found maps a selector's index to the text
\* content of its element
Elements(n, found) == [i \in 1..n |-> IF i \in DOMAIN found THEN Str(found[i]) ELSE None]

JobEntry(titles, companies) ==
    [job_title |-> Elements(3, titles), company_name |-> Elements(3, companies)]

NoEntries == <<>>

NoDom ==
    [name |-> Elements(6, <<>>), headline |-> Elements(4, <<>>),
     location |-> Elements(4, <<>>),
     experience_container |-> <<NoEntries, NoEntries, NoEntries, NoEntries>>]

NoCaptures == <<None, None, None>>

NoPage == [scripts |-> <<>>, dom |-> NoDom, html |-> NoCaptures]

Person(members) == JObject(Update([k \in {"@type"} |-> Str(<<"P", "e", "r", "s", "o", "n">>)], members))

FullPerson ==
    Person([name |-> Str(<<"A", "l", " ", "B", "o">>),
            jobTitle |-> Str(<<"C", "E", "O">>),
            worksFor |-> JObject([name |-> Str(<<"A", "c", "m", "e">>)]),
            address |-> JObject([addressLocality |-> Str(<<"R", "o", "m", "e">>),
                                 addressCountry |-> Str(<<"I", "T">>)]),
            alumniOf |-> JArray(<<JObject([name |-> Str(<<"M", "I", "T">>)]), Str(<<"E", "T", "H">>)>>)])

OtherPerson ==
    Person([name |-> Str(<<"C", "y", " ", "D", "i">>), jobTitle |-> Str(<<"C", "T", "O">>),
            worksFor |-> Str(<<"B", "o", "l", "t">>), address |-> Str(<<"O", "s", "l", "o">>),
            alumniOf |-> JObject([name |-> Str(<<"K", "T", "H">>)])])

Organization == JObject([name |-> Str(<<"A", "c", "m", "e">>)])

\* the pages with ld+json script blocks: one Person at the top level, in a
\* top-level array, in the @graph array of an object; and several blocks
ScriptPages ==
    {[NoPage EXCEPT !.scripts = sc] :
        sc \in {<<FullPerson>>,
                <<OtherPerson>>,
                <<JArray(<<Organization, FullPerson, OtherPerson>>)>>,
                <<JObject(("@context" :> Str(<<"s", "c", "h", "e", "m", "a", ".", "o", "r", "g">>))
                          @@ ("@graph" :> JArray(<<Organization, FullPerson>>)))>>,
                <<Person([name |-> Str(<<"A", "l", " ", "B", "o">>), worksFor |-> Str(<<"A", "c", "m", "e">>)]),
                  Person([name |-> Str(<<"C", "y", " ", "D", "i">>), jobTitle |-> Str(<<"C", "T", "O">>)])>>,
                <<JInvalid, Organization, OtherPerson>>}}

\* the pages whose fields the selectors find: blank and padded texts, an
\* experience section found by the second container selector only, with a
\* first entry that has a title and a company, or neither
DomPages ==
    {[NoPage EXCEPT !.dom = d] :
        d \in {[NoDom EXCEPT
                  !.name = Elements(6, (2 :> <<" ", " ">>) @@ (3 :> <<" ", "C", "y", " ", "D", "i", "\n">>) @@ (4 :> <<"Z", "e", "d", " ", "Z", "e", "d">>)),
                  !.location = Elements(4, (4 :> <<"O", "s", "l", "o", " ">>)),
                  !.experience_container =
                      <<NoEntries,
                        <<JobEntry((2 :> <<" ", "C", "T", "O", " ">>) @@ (3 :> <<"V", "P">>),
                                   (1 :> <<" ">>) @@ (3 :> <<"B", "o", "l", "t">>)),
                          JobEntry((1 :> <<"I", "n", "t", "e", "r", "n">>), (1 :> <<"Z", "a", "p">>))>>,
                        <<JobEntry((1 :> <<"C", "l", "e", "r", "k">>), (1 :> <<"Y", "u", "m">>))>>,
                        NoEntries>>],
               [NoDom EXCEPT
                  !.name = Elements(6, (1 :> <<"C", "y", " ", "D", "i">>)),
                  !.experience_container =
                      <<NoEntries,
                        <<JobEntry(<<>>, (2 :> <<"\n">>)),
                          JobEntry((1 :> <<"I", "n", "t", "e", "r", "n">>), (1 :> <<"Z", "a", "p">>))>>,
                        <<JobEntry((1 :> <<"C", "l", "e", "r", "k">>), (1 :> <<"Y", "u", "m">>))>>,
                        NoEntries>>],
               [NoDom EXCEPT
                  !.name = Elements(6, (1 :> <<"C", "y", " ", "D", "i">>)),
                  !.experience_container =
                      <<<<JobEntry((3 :> <<"C", "T", "O">>), <<>>),
                          JobEntry((1 :> <<"I", "n", "t", "e", "r", "n">>), (1 :> <<"Z", "a", "p">>))>>,
                        <<JobEntry((1 :> <<"C", "l", "e", "r", "k">>), (1 :> <<"Y", "u", "m">>))>>,
                        NoEntries, NoEntries>>]}}

\* the headlines the estimators read
Headlines ==
    {<<"5", " ", "y", "e", "a", "r", "s", " ", "i", "n", " ", "s", "a", "l", "e", "s", ",", " ", "1", "0", " ", "y", "e", "a", "r", "s", " ", "o", "f", " ", "e", "x", "p", "e", "r", "i", "e", "n", "c", "e">>,
     <<"3", " ", "y", "r", "s", " ", "e", "x", "p", "e", "r", "i", "e", "n", "c", "e", ",", " ", "4", " ", "y", "e", "a", "r", "s", " ", "i", "n", " ", "b", "a", "n", "k", "i", "n", "g">>,
     <<"2", " ", "y", "e", "a", "r", "s", " ", "i", "n", " ", "a", "d", "s", " ", "9", " ", "y", "e", "a", "r", "s", " ", "i", "n", " ", "r", "e", "t", "a", "i", "l">>,
     <<"J", "u", "n", "i", "o", "r", " ", "m", "a", "n", "a", "g", "e", "r">>,
     <<"S", "e", "n", "i", "o", "r", " ", "a", "s", "s", "o", "c", "i", "a", "t", "e">>,
     <<"E", "n", "t", "r", "y", " ", "c", "l", "e", "r", "k">>,
     <<"I", "T", " ", "m", "a", "n", "a", "g", "e", "r">>,
     <<"S", "a", "l", "e", "s", " ", "a", "n", "d", " ", "s", "o", "f", "t", "w", "a", "r", "e">>,
     <<"H", "e", "a", "l", "t", "h", " ", "t", "e", "c", "h", " ", "1", "2", "+", " ", "y", "r", "s", " ", "o", "f", " ", "e", "x", "p", "e", "r", "i", "e", "n", "c", "e">>,
     <<"N", "u", "r", "s", "e">>}

HeadlinePages ==
    {[NoPage EXCEPT !.dom = [NoDom EXCEPT !.name = Elements(6, (1 :> <<"C", "y", " ", "D", "i">>)),
                                          !.headline = Elements(4, (2 :> h))]] :
        h \in Headlines}

\* the pages whose name only the patterns over the content can give, and a
\* page whose structured name is empty while a selector finds one
ContentPages ==
    {[NoPage EXCEPT !.html = <<Str(<<"W", "e", "l", "c", "o", "m", "e">>), Str(<<" ", "E", "d", " ", "F", "u", " ">>), Str(<<"G", "u", "s", " ", "H", "o">>)>>],
     [NoPage EXCEPT !.html = <<Str(<<"L", "i", "n", "k", "e", "d", "I", "n">>), None, Str(<<"S", "o", "l", "o", " ">>)>>],
     [NoPage EXCEPT !.html = <<None, None, Str(<<"G", "u", "s", " ", "H", "o">>)>>],
     [scripts |-> <<Person([name |-> Str(<<>>)])>>,
      dom |-> [NoDom EXCEPT !.name = Elements(6, (1 :> <<"C", "y", " ", "D", "i">>))],
      html |-> <<Str(<<"E", "d", " ", "F", "u">>), None, None>>]}

Pages == ScriptPages \union DomPages \union HeadlinePages \union ContentPages

\* the pages of the whole run: a profile with a name and a position, or none
MainJsonLdOutputs ==
    {[name |-> Str(<<"A", "l", " ", "B", "o">>), current_position |-> Str(<<"C", "E", "O">>)]}

MainCssOutputs == {EmptyDict}

MainContentOutputs == {EmptyDict}

MainNavigation == {"loaded", "failed"}

MainWait == {"idle"}

TargetUrls == <<"in/a", "in/b", "in/c", "in/d">>

\* QualificationCriteria choices: the defaults (nothing targeted), and targets
\* for every dimension
CriteriaChoices ==
    { [target_job_titles |-> <<>>, target_industries |-> <<>>,
       target_locations |-> <<>>, min_experience_years |-> 0,
       target_company_sizes |-> <<>>, required_skills |-> <<>>],
      [target_job_titles |-> <<<<"C", "E", "O">>, <<"D", "i", "r", "e", "c", "t", "o", "r">>>>,
       target_industries |-> <<<<"T", "e", "c", "h">>>>,
       target_locations |-> <<<<"O", "s", "l", "o">>>>, min_experience_years |-> 5,
       target_company_sizes |-> <<<<"5", "1", "-", "2", "0", "0">>>>,
       required_skills |-> <<<<"G", "o">>, <<"S", "Q", "L">>>>] }

\* the weights of test_example.py
SampleWeights ==
    [job_title |-> 300, industry |-> 250, location |-> 150, experience |-> 200,
     company_size |-> 50, skills |-> 50]

\* weights that leave company size out
NoSizeWeights ==
    [job_title |-> 300, industry |-> 250, location |-> 150, experience |-> 200,
     company_size |-> 0, skills |-> 100]

UnitWeights(dim) ==
    [d \in {Dimensions[i] : i \in 1..Len(Dimensions)} |-> IF d = dim THEN 1000 ELSE 0]

\* ScoringWeights choices: three weightings summing to 1.0, two of them also
\* with the first weight off by 0.005 and by 0.01, and all weight on one
\* dimension
WeightChoices ==
    {SampleWeights}
    \union {[b EXCEPT !.job_title = @ + e] :
        b \in {DefaultWeights, NoSizeWeights},
        e \in {-10, -5, 0, 5, 10}}
    \union {UnitWeights(Dimensions[i]) : i \in 1..Len(Dimensions)}

\* profiles that differ in one field from a profile with nothing but a name,
\* and from one that matches every target: positions that contain a target,
\* are contained in one, or are unlike all; zero, one and exactly the minimum
\* of years; skills in another case, containing a required one, close to one,
\* and unlike all
BlankProfile == [LinkedInProfile("in/a") EXCEPT !.name = Str(<<"A", "l", " ", "B", "o">>)]

StrongProfile ==
    [BlankProfile EXCEPT
        !.current_position = Str(<<"C", "E", "O">>), !.industry = Str(<<"T", "e", "c", "h">>),
        !.location = Str(<<"O", "s", "l", "o", ",", " ", "N", "O">>), !.experience_years = Num(10),
        !.company_size = Str(<<"5", "1", "-", "2", "0", "0">>), !.skills = <<<<"g", "o">>, <<"s", "q", "l">>>>]

BoundaryProfiles ==
    UNION {
        {[b EXCEPT !.current_position = Str(pos)] :
            pos \in {<<"C", "O", "O">>, <<"A", "r", "t", " ", "D", "i", "r", "e", "c", "t", "o", "r">>, <<"D", "i", "r", "e", "c", "t">>}}
        \union {[b EXCEPT !.experience_years = Num(yrs)] : yrs \in {0, 1, 5}}
        \union {[b EXCEPT !.skills = sk] :
            sk \in {<<<<"G", "O">>>>, <<<<"g", "o", "l", "a", "n", "g">>, <<"j", "a", "v", "a">>>>, <<<<"s", "q">>>>, <<<<"j", "a", "v", "a">>>>,
                    <<<<"s", "a", "l">>, <<"G", "o">>>>}} :
        b \in {BlankProfile, StrongProfile}}

\* profiles handed to the engine
ScoredProfiles ==
    BoundaryProfiles \union
    {[LinkedInProfile("in/a") EXCEPT
        !.name = Str(<<"A", "l", " ", "B", "o">>),
        !.current_position = pos, !.industry = ind, !.location = loc,
        !.experience_years = yrs, !.company_size = size, !.skills = sk,
        !.is_valid = ok] :
     pos \in {None, Str(<<"C", "E", "O">>), Str(<<"D", "i", "r", "e", "c", "t", "r">>)},
     ind \in {None, Str(<<"T", "e", "c", "h">>)},
     loc \in {None, Str(<<"O", "s", "l", "o", ",", " ", "N", "O">>)},
     yrs \in {None, Num(4), Num(10)},
     size \in {None, Str(<<"5", "1", "-", "2", "0", "0">>)},
     sk \in {<<>>, <<<<"g", "o">>>>, <<<<"g", "o">>, <<"s", "q", "l">>>>},
     ok \in BOOLEAN}

MinScores == {0, 60, 95}

\* the documented example: the profile of create_sample_profile, reduced to
\* the fields the engine reads, and criteria that target it
ExampleProfile ==
    [BlankProfile EXCEPT
        !.current_position = Str(<<"C", "h", "i", "e", "f", " ", "E", "x", "e", "c", "u", "t", "i", "v", "e", " ", "O", "f", "f", "i", "c", "e", "r">>),
        !.industry = Str(<<"T", "e", "c", "h", "n", "o", "l", "o", "g", "y">>),
        !.location = Str(<<"S", "a", "n", " ", "F", "r", "a", "n", "c", "i", "s", "c", "o", ",", " ", "C", "A">>),
        !.experience_years = Num(10),
        !.skills = <<<<"L", "e", "a", "d", "e", "r", "s", "h", "i", "p">>, <<"S", "t", "r", "a", "t", "e", "g", "y">>, <<"P", "y", "t", "h", "o", "n">>>>]

ExampleCriteria ==
    [target_job_titles |-> <<<<"C", "E", "O">>, <<"C", "T", "O">>>>,
     target_industries |-> <<<<"T", "e", "c", "h", "n", "o", "l", "o", "g", "y">>>>,
     target_locations |-> <<<<"S", "a", "n", " ", "F", "r", "a", "n", "c", "i", "s", "c", "o">>>>, min_experience_years |-> 5,
     target_company_sizes |-> <<>>,
     required_skills |-> <<<<"L", "e", "a", "d", "e", "r", "s", "h", "i", "p">>, <<"S", "t", "r", "a", "t", "e", "g", "y">>, <<"P", "y", "t", "h", "o", "n">>>>]

\* criteria that target remote work, alone, after and before another location
RemoteCriteria ==
    {[ExampleCriteria EXCEPT !.target_locations = locations] :
        locations \in {<<<<"R", "e", "m", "o", "t", "e">>>>, <<<<"S", "a", "n", " ", "F", "r", "a", "n", "c", "i", "s", "c", "o">>, <<"R", "e", "m", "o", "t", "e">>>>,
                       <<<<"R", "E", "M", "O", "T", "E">>, <<"S", "a", "n", " ", "F", "r", "a", "n", "c", "i", "s", "c", "o">>>>}}

\* locations with each of the words for remote work, a misspelt and a
\* different city
LocatedProfiles ==
    {[BlankProfile EXCEPT !.location = Str(location)] :
        location \in {<<"F", "u", "l", "l", "y", " ", "R", "e", "m", "o", "t", "e", " ", "(", "G", "l", "o", "b", "a", "l", ")">>, <<"W", "o", "r", "l", "d", "w", "i", "d", "e">>, <<"G", "l", "o", "b", "a", "l">>,
                      <<"D", "i", "s", "t", "r", "i", "b", "u", "t", "e", "d", " ", "t", "e", "a", "m">>, <<"S", "a", "n", " ", "F", "r", "a", "n", "s", "i", "s", "c", "o">>, <<"O", "s", "l", "o">>}}

ExampleProfiles == {ExampleProfile, BlankProfile} \union LocatedProfiles

ExampleMinScores == {60, 90}

\* the weights of the input of main(): the defaults, all six zero, the sample
\* weights doubled (total 2.0) and the defaults halved (total 0.5)
ZeroWeights == [d \in DOMAIN DefaultWeights |-> 0]

Scaled(w, p, q) == [d \in DOMAIN w |-> (w[d] * p) \div q]

MainWeights ==
    {DefaultWeights, ZeroWeights, Scaled(SampleWeights, 2, 1),
     Scaled(DefaultWeights, 1, 2)}

MainCriteria == {c \in CriteriaChoices : c.target_job_titles # <<>>}

MainMinScores == {0, 60}

MainMaxResults == {0, 1, 100}

----------------------------------------------------------------------------
(* Specifications *)

IdleExtract ==
    /\ results = <<>>
    /\ pc = "idle"
    /\ url = ""
    /\ attempts = 0
    /\ escaped = FALSE
    /\ load_failed = FALSE
    /\ profile = LinkedInProfile("")
    /\ extracted_data = EmptyDict
    /\ tier_data = NoTierData
    /\ ran = {}
    /\ validation = "none"
    /\ log = {}
    /\ page = NoPage

\* LinkedInScraper.__init__ sets last_request_time = 0; the clock is far past it
IdleClock ==
    /\ now = RequestDelay
    /\ last_request_time = 0

IdleRate ==
    /\ wpc = [w \in Workers |-> "ready"]
    /\ wake = [w \in Workers |-> 0]
    /\ served = [w \in Workers |-> 0]
    /\ dispatches = <<>>

IdleScore ==
    /\ engine = "none"
    /\ weights = DefaultWeights
    /\ criteria = CHOOSE c \in CriteriaChoices : c.target_job_titles = <<>>
    /\ scored = <<"none", LinkedInProfile("")>>
    /\ min_score = 0
    /\ breakdown = ScoreBreakdown
    /\ lead = NoLead
    /\ calls = 0
    /\ given = LinkedInProfile("")
    /\ first = ScoreBreakdown

IdleMain ==
    /\ mpc = "input"
    /\ profile_urls = <<>>
    /\ input_weights = DefaultWeights
    /\ max_results = 100
    /\ stats = NoStats
    /\ qualified_leads = <<>>
    /\ dataset = <<>>
    /\ key_value = NoRecord

\* one target, every combination of what the three extractors can return
InitExtract ==
    /\ queue = <<TargetUrls[1]>>
    /\ IdleExtract /\ IdleClock /\ IdleRate /\ IdleScore /\ IdleMain

NextExtract ==
    \/ HandlerStart
    \/ RespectRateLimit
    \/ Navigate(PlainNavigation)
    \/ WaitForContent(PlainWait)
    \/ ExtractJsonLd(JsonLdOutputs)
    \/ ExtractCss(CssOutputs)
    \/ ExtractContent(ContentOutputs)
    \/ Finalize
    \/ HandlerReturn

SpecExtract == InitExtract /\ [][NextExtract]_vars

\* a run: MaxTargets targets handed to the handler one after the other
InitRun ==
    /\ queue = SubSeq(TargetUrls, 1, MaxTargets)
    /\ IdleExtract /\ IdleClock /\ IdleRate /\ IdleScore /\ IdleMain

NextRun ==
    \/ HandlerStart
    \/ RespectRateLimit
    \/ Navigate(RunNavigation)
    \/ WaitForContent(RunWait)
    \/ ExtractJsonLd(RunJsonLdOutputs)
    \/ ExtractCss(RunCssOutputs)
    \/ ExtractContent(RunContentOutputs)
    \/ Finalize
    \/ HandlerReturn

SpecRun == InitRun /\ [][NextRun]_vars

\* the rate gate under NumWorkers concurrent handlers
InitRate ==
    /\ queue = <<>>
    /\ IdleExtract /\ IdleClock /\ IdleRate /\ IdleScore /\ IdleMain

NextRate ==
    \/ \E w \in Workers : RateEnter(w)
    \/ \E w \in Workers : RateWake(w)
    \/ \E w \in Workers : RateNext(w)
    \/ Tick

SpecRate == InitRate /\ [][NextRate]_vars

\* the scoring engine
InitScore ==
    /\ queue = <<>>
    /\ IdleExtract /\ IdleClock /\ IdleRate /\ IdleScore /\ IdleMain

NextScore ==
    \/ \E c \in CriteriaChoices, w \in WeightChoices : NewEngine(c, w)
    \/ \E p \in ScoredProfiles : ScoreProfile(p)
    \/ ScoreAgain
    \/ \E p \in ScoredProfiles, m \in MinScores : QualifyLead(p, m)

SpecScore == InitScore /\ [][NextScore]_vars


\* the whole run of main(): input, components, scraping by the handler,
\* scoring, output
InitMain ==
    /\ queue = <<>>
    /\ IdleExtract /\ IdleClock /\ IdleRate /\ IdleScore /\ IdleMain

NextMain ==
    \/ \E c \in MainCriteria, w \in MainWeights, m \in MainMinScores,
          max \in MainMaxResults :
           MainReadInput(SubSeq(TargetUrls, 1, MaxTargets), c, w, m, max)
    \/ MainComponents
    \/ MainScrape
    \/ mpc = "scraping" /\ HandlerStart
    \/ mpc = "scraping" /\ RespectRateLimit
    \/ mpc = "scraping" /\ Navigate(MainNavigation)
    \/ mpc = "scraping" /\ WaitForContent(MainWait)
    \/ mpc = "scraping" /\ ExtractJsonLd(MainJsonLdOutputs)
    \/ mpc = "scraping" /\ ExtractCss(MainCssOutputs)
    \/ mpc = "scraping" /\ ExtractContent(MainContentOutputs)
    \/ mpc = "scraping" /\ Finalize
    \/ mpc = "scraping" /\ HandlerReturn
    \/ MainScraped
    \/ MainScore
    \/ MainOutput
    \/ MainFail

SpecMain == InitMain /\ [][NextMain]_vars

\* the scoring engine on the documented example and on remote locations
InitExamples ==
    /\ queue = <<>>
    /\ IdleExtract /\ IdleClock /\ IdleRate /\ IdleScore /\ IdleMain

NextExamples ==
    \/ \E c \in {ExampleCriteria} \union RemoteCriteria : NewEngine(c, DefaultWeights)
    \/ \E p \in ExampleProfiles : ScoreProfile(p)
    \/ ScoreAgain
    \/ \E p \in ExampleProfiles, m \in ExampleMinScores : QualifyLead(p, m)

SpecExamples == InitExamples /\ [][NextExamples]_vars

\* the handler on one target whose page is known: the extractors compute
\* their results from the page
IdlePage ==
    /\ results = <<>>
    /\ pc = "idle"
    /\ url = ""
    /\ attempts = 0
    /\ escaped = FALSE
    /\ load_failed = FALSE
    /\ profile = LinkedInProfile("")
    /\ extracted_data = EmptyDict
    /\ tier_data = NoTierData
    /\ ran = {}
    /\ validation = "none"
    /\ log = {}

InitPage ==
    /\ queue = <<TargetUrls[1]>>
    /\ page \in Pages
    /\ IdlePage /\ IdleClock /\ IdleRate /\ IdleScore /\ IdleMain

NextPage ==
    \/ HandlerStart
    \/ RespectRateLimit
    \/ Navigate(PlainNavigation)
    \/ WaitForContent(PlainWait)
    \/ ExtractJsonLd({_extract_from_json_ld(page.scripts)})
    \/ ExtractCss({_extract_with_css_selectors(page.dom)})
    \/ ExtractContent({_extract_from_content(page.html)})
    \/ Finalize
    \/ HandlerReturn

SpecPage == InitPage /\ [][NextPage]_vars
----------------------------------------------------------------------------
(* Claims *)

\* a call of the scoring engine has returned
Called == scored[1] # "none"

\* C1: qualify_lead returns a lead exactly when the profile is valid and its
\* total score is at least min_score (the boundary included); an invalid
\* profile gets no lead whatever its score.  The lead holds that profile and
\* its breakdown.
C1_QualifyIffValidAndAtThreshold ==
    scored[1] = "qualify_lead" =>
        LET p == scored[2]
        IN  /\ ~p.is_valid => lead = NoLead
            /\ p.is_valid =>
                 ((lead # NoLead) <=> AtLeast(breakdown.total_score, min_score, 1))
            /\ lead # NoLead =>
                 lead[1].profile = p /\ lead[1].score_breakdown = breakdown

\* a valid profile whose total equals the threshold qualifies
C1_Witness ==
    /\ scored[1] = "qualify_lead"
    /\ scored[2].is_valid
    /\ min_score > 0
    /\ Equals(breakdown.total_score, min_score, 1)
    /\ lead # NoLead

\* the tiers that returned and gave field f a value, by position in Tiers
Producers(f) ==
    {i \in 1..Len(Tiers) : Tiers[i] \in ran /\ f \in DOMAIN tier_data[Tiers[i]]}

NonEmptyProducers(f) ==
    {i \in Producers(f) : Truthy(tier_data[Tiers[i]][f])}

\* C3: after the merge each field holds the first non-empty value in
\* precedence order among the extractors that ran, and is empty only if none
\* of them produced a non-empty value.
C3_FirstNonEmptyWins ==
    pc = "finalize" =>
        \A f \in Fields :
            IF NonEmptyProducers(f) = {}
            THEN ~Truthy(Get(extracted_data, f))
            ELSE LET top == CHOOSE i \in NonEmptyProducers(f) :
                               \A j \in NonEmptyProducers(f) : i <= j
                 IN  Get(extracted_data, f) = tier_data[Tiers[top]][f]

\* C4: any two successive dispatches of the rate gate are at least
\* RequestDelay apart, under every interleaving of the workers.
C4_DispatchesSpaced ==
    \A i \in 1..(Len(dispatches) - 1) :
        dispatches[i + 1] - dispatches[i] >= RequestDelay

\* C5: with weights that validate, the total score lies in [0, 100].
C5_TotalWithinRange ==
    (engine = "ready" /\ Called) =>
        /\ AtLeast(breakdown.total_score, 0, 1)
        /\ ~Above(breakdown.total_score, 100, 1)

\* every dimension at the best score it can reach, company-size target and
\* value both present
MaxStrength ==
    /\ Called
    /\ Equals(breakdown.job_title_score, 1, 1)
    /\ Equals(breakdown.industry_score, 1, 1)
    /\ Equals(breakdown.location_score, 1, 1)
    /\ Equals(breakdown.experience_score, 1, 1)
    /\ criteria.target_company_sizes # <<>>
    /\ Truthy(scored[2].company_size)
    /\ Equals(breakdown.skills_score, 1, 1)

PolicyAccepts(data) ==
    LET name == Get(data, "name")
        headline == Get(data, "headline")
    IN  /\ Truthy(name)
        /\ SplitCount(name.text) >= 2
        /\ Len(name.text) >= 3
        /\ (Truthy(headline) => Len(headline.text) <= HeadlineLimit)

\* extraction has completed without an error
CompletedWithoutError ==
    /\ pc = "return"
    /\ validation \in {"accepted", "rejected"}
    /\ profile.extraction_errors = <<>>

\* C7: validation accepts the merged record exactly when its name is present
\* with at least 2 tokens and 3 characters and its headline, when present,
\* has at most 200 characters; is_valid of the returned profile is that result
\* whenever extraction completes without an error.
C7_ValidationPolicy ==
    CompletedWithoutError =>
        /\ (validation = "accepted") <=> PolicyAccepts(extracted_data)
        /\ profile.is_valid <=> PolicyAccepts(extracted_data)

\* a record with a headline of exactly 200 characters was accepted
C7_Witness ==
    /\ CompletedWithoutError
    /\ profile.is_valid
    /\ Truthy(profile.headline)
    /\ Len(profile.headline.text) = HeadlineLimit

\* the policy on a profile's own fields
PolicyAcceptsProfile(p) ==
    PolicyAccepts([name |-> p.name, headline |-> p.headline])

\* C8: a profile is valid only if the validation policy accepted its record,
\* from its construction on and in the scraper's results.
C8_ValidOnlyIfAccepted ==
    /\ pc # "idle" => (profile.is_valid => validation = "accepted")
    /\ \A i \in 1..Len(results) :
          results[i].is_valid => PolicyAcceptsProfile(results[i])

\* the targets whose handler has returned
Handled == MaxTargets - Len(queue) - (IF pc = "idle" THEN 0 ELSE 1)

\* C9: every target handed to the handler adds exactly one profile to the
\* results, in order and under the target's url; the profile is the one the
\* extraction collected, and it is invalid when the extraction failed or the
\* record was rejected.
C9_OneProfilePerTarget ==
    /\ Len(results) = Handled
    /\ \A i \in 1..Len(results) : results[i].url = TargetUrls[i]
    /\ (pc = "idle" /\ results # <<>>) =>
          /\ results[Len(results)] = profile
          /\ validation # "accepted" => ~results[Len(results)].is_valid

\* all targets are handled, one of them failed and carries its error
C9_Witness ==
    /\ pc = "idle"
    /\ Len(results) = MaxTargets
    /\ \E i \in 1..Len(results) :
          /\ ~results[i].is_valid
          /\ results[i].extraction_errors # <<>>
          /\ results[i].url = TargetUrls[i]

\* C10: a target whose page load failed has been tried RetryCap times when
\* its handler returns; a target whose extraction logic failed after the page
\* loaded has been tried once.
C10_LoadFailureRetried ==
    (pc = "idle" /\ results # <<>>) =>
        /\ load_failed => attempts = RetryCap
        /\ (~load_failed /\ profile.extraction_errors # <<>>) => attempts = 1


\* ---------------------------------------------------------------------------
\* C11: when the fetch of a target fails (the navigation fails, the wait for
\* the load times out, or a block is detected), the extraction tiers still run
\* on what was obtained: the attempt does not end before the profile was
\* mapped and validated.
FetchWarnings == {"blocked", "wait_timeout"}

FetchFailed == load_failed \/ log \cap FetchWarnings # {}

C11_FetchFailureStillExtracts ==
    (pc = "return" /\ FetchFailed) => validation # "none"

\* ---------------------------------------------------------------------------
\* C12: a tier whose extractor raised leaves an entry in the profile's
\* extraction_errors.
C12_TierFailureRecorded ==
    (\E i \in DOMAIN Tiers : Tiers[i] \in log) => profile.extraction_errors # <<>>

\* ---------------------------------------------------------------------------
\* C13: when the weights of the input cannot be normalised (they do not
\* validate and their total is not positive, e.g. all six are zero), the run
\* fails before scraping: main() never gets past the construction of the
\* engine, no target is enqueued or handled and no request is stamped.
\* Weights with a positive total that do not validate are replaced by their
\* quotients by the total, the engine accepts them and the run goes on.
Unnormalizable(w) == ~validate(w) /\ WeightTotal(w) <= 0

NothingScraped ==
    /\ queue = <<>>
    /\ results = <<>>
    /\ pc = "idle"
    /\ attempts = 0
    /\ last_request_time = 0

C13_UnnormalizableFailsBeforeScraping ==
    mpc # "input" =>
        /\ Unnormalizable(input_weights) =>
               /\ mpc \in {"components", "raised"}
               /\ mpc = "raised" => engine = "refused"
               /\ stats = NoStats
               /\ NothingScraped
        /\ (~validate(input_weights) /\ WeightTotal(input_weights) > 0) =>
               /\ validate(weights)
               /\ \A d \in DOMAIN weights :
                      weights[d] * WeightTotal(input_weights) = input_weights[d] * 1000
               /\ mpc # "components" => engine = "ready" /\ stats # NoStats

C13_Witness ==
    /\ mpc = "raised"
    /\ engine = "refused"
    /\ input_weights = ZeroWeights

\* ---------------------------------------------------------------------------
\* C14: the construction of an engine succeeds exactly when the total of the
\* weights is less than 0.01 away from 1.0 (10 thousandths); when it is
\* refused there is no engine, so nothing was scored or qualified, and every
\* score was computed by an engine whose weights are within the tolerance.
WithinTolerance(w) ==
    /\ WeightTotal(w) > 1000 - 10
    /\ WeightTotal(w) < 1000 + 10

C14_EngineRefusesUnnormalizedWeights ==
    /\ engine = "ready" => WithinTolerance(weights)
    /\ engine = "refused" =>
           /\ ~WithinTolerance(weights)
           /\ scored[1] = "none"
           /\ breakdown = ScoreBreakdown
           /\ lead = NoLead
    /\ scored[1] # "none" => engine = "ready"

C14_Witness ==
    /\ engine = "refused"
    /\ WeightTotal(weights) = 1000 + 10

\* ---------------------------------------------------------------------------
\* C15: when an exception leaves the try block of main() (raised while
\* scraping, while scoring or by the push to the dataset), PROCESSING_STATS
\* holds the statistics as they stood at that point.
C15_StatsStoredBeforeRaise ==
    (mpc = "raised" /\ stats # NoStats) => key_value = <<to_dict(stats[1])>>

C15_Witness ==
    /\ mpc = "raised"
    /\ stats # NoStats
    /\ stats[1].successful_extractions > 0
    /\ dataset = <<>>

HasEstimate(p) == p.experience_years # None

C17_MeetsMinimumScoresFull ==
    calls >= 1 =>
        /\ (/\ HasEstimate(given)
            /\ given.experience_years.num >= criteria.min_experience_years) =>
               /\ Equals(breakdown.experience_score, 1, 1)
               /\ breakdown.experience_details.kind = "meets"
               /\ breakdown.experience_details.minimum = criteria.min_experience_years
        /\ breakdown.experience_details.kind = "not available" => ~HasEstimate(given)

\* ---------------------------------------------------------------------------
\* C18: with experience_years below the minimum the experience score is
\* years / max(minimum, 1) * 0.7, which is below 0.7; an experience score
\* above 0.7 is given only to profiles that meet the minimum.
BelowMinimum(p, c) ==
    /\ HasEstimate(p)
    /\ p.experience_years.num < c.min_experience_years

C18_BelowMinimumScoresUnderSeventy ==
    calls >= 1 =>
        /\ BelowMinimum(given, criteria) =>
               /\ Equals(breakdown.experience_score,
                         given.experience_years.num * 7,
                         Max(criteria.min_experience_years, 1) * 10)
               /\ ~AtLeast(breakdown.experience_score, 7, 10)
        /\ Above(breakdown.experience_score, 7, 10) =>
               /\ HasEstimate(given)
               /\ given.experience_years.num >= criteria.min_experience_years

C18_Witness ==
    /\ calls >= 1
    /\ criteria.min_experience_years = 5
    /\ given.experience_years = Num(4)
    /\ Equals(breakdown.experience_score, 56, 100)

\* ---------------------------------------------------------------------------
\* C19: the job title score is 0 with no match when the criteria name no title
\* or the profile has no position; 1.0 with the first target that contains
\* the lower-cased position or is contained in it, when there is one;
\* otherwise the greatest similarity of a target when that is 0.70 or more,
\* with the first target that reaches it, else 0 with no match.  The
\* score is never strictly between 0 and 0.70, and the match is null exactly
\* when the score is 0.
First(S) == CHOOSE i \in S : \A j \in S : i <= j

Greatest(S) == CHOOSE i \in S : \A j \in S : i >= j

TitleRule(targets, current_title, score, match) ==
    LET Lowered(i) == Lower(targets[i])
        hits == {i \in DOMAIN targets :
                    \/ Contains(current_title, Lowered(i))
                    \/ Contains(Lowered(i), current_title)}
        Rule(similarity) ==
            IF Greatest({similarity[i] : i \in DOMAIN targets}) >= 70
            THEN /\ Equals(score,
                           Greatest({similarity[i] : i \in DOMAIN targets}), 100)
                 /\ match =
                        Str(targets[First({i \in DOMAIN targets :
                            similarity[i] =
                                Greatest({similarity[j] : j \in DOMAIN targets})})])
            ELSE score = Zero /\ match = None
    IN  IF hits # {}
        THEN Equals(score, 1, 1) /\ match = Str(targets[First(hits)])
        ELSE \A similarity \in
                 {[i \in DOMAIN targets |-> partial_ratio(current_title, Lowered(i))]} :
                 Rule(similarity)

C19_JobTitleRule ==
    calls >= 1 =>
        /\ IF criteria.target_job_titles = <<>> \/ ~Truthy(given.current_position)
           THEN /\ breakdown.job_title_score = Zero
                /\ breakdown.job_title_match = None
           ELSE TitleRule(criteria.target_job_titles,
                          Lower(given.current_position.text),
                          breakdown.job_title_score, breakdown.job_title_match)
        /\ ~(/\ Above(breakdown.job_title_score, 0, 1)
             /\ ~AtLeast(breakdown.job_title_score, 7, 10))
        /\ breakdown.job_title_match = None <=> Equals(breakdown.job_title_score, 0, 1)

\* a position unlike every target: the greatest similarity is under 0.70
C19_Witness ==
    /\ calls >= 1
    /\ criteria.target_job_titles # <<>>
    /\ given.current_position = Str(<<"C", "O", "O">>)
    /\ breakdown.job_title_score = Zero
    /\ partial_ratio(<<"c", "o", "o">>, <<"c", "e", "o">>) > 60

\* ---------------------------------------------------------------------------
\* C20: with required skills and profile skills both present, skills_matched
\* is the list of the required skills, in their order and spelling, that
\* equal a profile skill without regard to case, are contained in one, or
\* have a similarity of 0.80 or more to one; the score is the length of that
\* list over the number of required skills, and never above 1.0.
SkillRule(required, skills_lower, score, matched) ==
    LET Matched(r) ==
            \E i \in DOMAIN skills_lower :
                \/ skills_lower[i] = Lower(r)
                \/ Contains(skills_lower[i], Lower(r))
                \/ partial_ratio(skills_lower[i], Lower(r)) >= 80
    IN  /\ matched = SelectSeq(required, Matched)
        /\ Equals(score, Len(matched), Len(required))

C20_SkillsRule ==
    calls >= 1 =>
        /\ (criteria.required_skills # <<>> /\ given.skills # <<>>) =>
               SkillRule(criteria.required_skills,
                         [i \in DOMAIN given.skills |-> Lower(given.skills[i])],
                         breakdown.skills_score, breakdown.skills_matched)
        /\ ~Above(breakdown.skills_score, 1, 1)
        /\ Len(breakdown.skills_matched) <= Len(criteria.required_skills)

\* one of the two required skills is matched, and only by similarity
C20_Witness ==
    /\ calls >= 1
    /\ criteria.required_skills = <<<<"G", "o">>, <<"S", "Q", "L">>>>
    /\ given.skills = <<<<"s", "q">>>>
    /\ breakdown.skills_matched = <<<<"S", "Q", "L">>>>
    /\ Equals(breakdown.skills_score, 1, 2)

\* ---------------------------------------------------------------------------
\* C21: the qualification reasons of a breakdown are at most one message for
\* each of job title, industry, location, experience and skills, in that
\* order, followed by one message for the band of the total as the last
\* element: excellent from 80, good from 60, moderate from 40, else limited.
\* The list is never empty and holds no message about the company size.
ReasonOrder ==
    [m \in {"Strong job title match", "Partial job title match"} |-> 1]
    @@ [m \in {"Target industry match", "Related industry"} |-> 2]
    @@ [m \in {"Perfect location match", "Good location match"} |-> 3]
    @@ [m \in {"Excellent experience level", "Good experience level",
               "Some experience"} |-> 4]
    @@ [m \in {"Has required skill", "Has N required skills"} |-> 5]
    @@ [m \in {"Excellent overall qualification match", "Good qualification match",
               "Moderate qualification match", "Limited qualification match"} |-> 6]

BandMessage(total) ==
    IF total.n >= 80 * total.d THEN "Excellent overall qualification match"
    ELSE IF total.n >= 60 * total.d THEN "Good qualification match"
    ELSE IF total.n >= 40 * total.d THEN "Moderate qualification match"
    ELSE "Limited qualification match"

C21_ReasonsOrderedWithOneBand ==
    calls >= 1 =>
        LET reasons == breakdown.qualification_reasons
        IN  /\ reasons # <<>>
            /\ \A i \in DOMAIN reasons : reasons[i].message \in DOMAIN ReasonOrder
            /\ \A i, j \in DOMAIN reasons :
                   i < j => ReasonOrder[reasons[i].message] < ReasonOrder[reasons[j].message]
            /\ reasons[Len(reasons)].message = BandMessage(breakdown.total_score)

\* a message for every one of the five dimensions, and a company size that
\* scored
C21_Witness ==
    /\ calls >= 1
    /\ Len(breakdown.qualification_reasons) = 6
    /\ Above(breakdown.company_size_score, 0, 1)

\* ---------------------------------------------------------------------------
\* C22: against criteria that name the location "Remote" in any case and at
\* any place of the list, a profile location that contains "remote",
\* "worldwide", "global" or "distributed" scores 1.0; every other location
\* score is 0 or at least 0.80.
TargetsRemote(c) ==
    \E i \in DOMAIN c.target_locations : Lower(c.target_locations[i]) = <<"r", "e", "m", "o", "t", "e">>

LocatedRemotely(p) ==
    /\ Truthy(p.location)
    /\ \E word \in {<<"r", "e", "m", "o", "t", "e">>, <<"w", "o", "r", "l", "d", "w", "i", "d", "e">>, <<"g", "l", "o", "b", "a", "l">>, <<"d", "i", "s", "t", "r", "i", "b", "u", "t", "e", "d">>} :
           Contains(Lower(p.location.text), word)

C22_RemoteLocationScoresFull ==
    calls >= 1 =>
        IF TargetsRemote(criteria) /\ LocatedRemotely(given)
        THEN Equals(breakdown.location_score, 1, 1)
        ELSE \/ Equals(breakdown.location_score, 0, 1)
             \/ AtLeast(breakdown.location_score, 8, 10)

\* "Worldwide" neither contains a target nor is contained in one, and the
\* target before "Remote" is unlike it
C22_Witness ==
    /\ calls >= 1
    /\ criteria.target_locations = <<<<"S", "a", "n", " ", "F", "r", "a", "n", "c", "i", "s", "c", "o">>, <<"R", "e", "m", "o", "t", "e">>>>
    /\ given.location = Str(<<"W", "o", "r", "l", "d", "w", "i", "d", "e">>)
    /\ breakdown.location_match = Str(<<"R", "e", "m", "o", "t", "e">>)
    /\ Equals(breakdown.location_score, 1, 1)

\* ---------------------------------------------------------------------------
\* C23: the documented example profile, scored against the documented criteria
\* with the default weights, has a total of at least 90, and qualify_lead
\* with the threshold 60 returns a lead for it.
C23_ExampleScoresNinety ==
    (/\ calls >= 1
     /\ given = ExampleProfile
     /\ criteria = ExampleCriteria
     /\ weights = DefaultWeights) =>
        /\ AtLeast(breakdown.total_score, 90, 1)
        /\ (scored[1] = "qualify_lead" /\ min_score = 60) => lead # NoLead

\* ---------------------------------------------------------------------------
\* C29: the run collects, and pushes to the dataset, no more leads than
\* max_results, for every max_results from 0 on.
C29_LeadsWithinMaxResults ==
    max_results >= 0 =>
        /\ Len(qualified_leads) <= max_results
        /\ Len(dataset) <= max_results

\* ---------------------------------------------------------------------------
\* C24: when the page embeds several Person blocks, the structured tier
\* returns the fields of the first such block in document order and nothing
\* else: no field of a later block replaces one of the first, and no field of
\* a later block is added to them.
PersonOfBlock(block) ==
    IF IsPerson(block) THEN <<block>>
    ELSE IF block.kind = "array" /\ \E i \in DOMAIN block.items : IsPerson(block.items[i])
    THEN <<block.items[CHOOSE i \in DOMAIN block.items :
                           /\ IsPerson(block.items[i])
                           /\ \A j \in 1..(i - 1) : ~IsPerson(block.items[j])]>>
    ELSE <<>>

PersonBlocks(scripts) == {i \in DOMAIN scripts : PersonOfBlock(scripts[i]) # <<>>}

FirstPersonBlock(scripts) ==
    PersonOfBlock(scripts[CHOOSE i \in PersonBlocks(scripts) :
                              \A j \in PersonBlocks(scripts) : i <= j])[1]

C24_FirstPersonBlockWins ==
    ("json_ld" \in ran /\ Cardinality(PersonBlocks(page.scripts)) >= 2) =>
        \A field \in DOMAIN tier_data["json_ld"] :
            /\ field \in DOMAIN _parse_person_json_ld(FirstPersonBlock(page.scripts))
            /\ tier_data["json_ld"][field] =
                   _parse_person_json_ld(FirstPersonBlock(page.scripts))[field]

\* ---------------------------------------------------------------------------
\* C25: the text-pattern extractor is called only when neither the structured
\* nor the positional tier returned a non-empty name, and a name it returns
\* has at least two tokens.
ReturnedName(tier) ==
    /\ tier \in ran
    /\ Truthy(Get(tier_data[tier], "name"))

ContentTierCalled == "content_based" \in ran \union log

C25_ContentTierOnlyWithoutName ==
    /\ ContentTierCalled =>
           ~ReturnedName("json_ld") /\ ~ReturnedName("css_selectors")
    /\ ReturnedName("content_based") =>
           SplitCount(tier_data["content_based"]["name"].text) >= 2

\* ---------------------------------------------------------------------------
\* C26: the positional tier takes position and company from the first entry
\* of the first experience-container rule that finds entries, and from nothing
\* else: each is the trimmed text of the first rule with a text that is not
\* blank inside that entry, and is absent when that entry has none, whatever
\* the later entries and the later container rules hold.
NotBlank(element) ==
    element.kind = "str" /\ \E i \in DOMAIN element.text : ~IsWhitespace(element.text[i])

\* the entry the claim speaks of: none when no container rule finds entries
CurrentEntry(containers) ==
    IF \A i \in DOMAIN containers : containers[i] = <<>> THEN <<>>
    ELSE <<containers[CHOOSE i \in DOMAIN containers :
                          /\ containers[i] # <<>>
                          /\ \A j \in 1..(i - 1) : containers[j] = <<>>][1]>>

TakenFrom(data, key, elements) ==
    IF \E k \in DOMAIN elements : NotBlank(elements[k])
    THEN /\ key \in DOMAIN data
         /\ \E k \in DOMAIN elements :
                /\ NotBlank(elements[k])
                /\ \A m \in 1..(k - 1) : ~NotBlank(elements[m])
                /\ data[key] = Str(Strip(elements[k].text))
         /\ ~IsWhitespace(data[key].text[1])
         /\ ~IsWhitespace(data[key].text[Len(data[key].text)])
    ELSE key \notin DOMAIN data

C26_FirstEntryOfFirstContainer ==
    "css_selectors" \in ran =>
        LET entry == CurrentEntry(page.dom.experience_container)
            data == tier_data["css_selectors"]
        IN  IF entry = <<>>
            THEN DOMAIN data \cap {"current_position", "current_company"} = {}
            ELSE /\ TakenFrom(data, "current_position", entry[1].job_title)
                 /\ TakenFrom(data, "current_company", entry[1].company_name)

\* the first container rule finds nothing, the first entry of the second has
\* neither a title nor a company, and the entry after it has both
C26_Witness ==
    /\ "css_selectors" \in ran
    /\ page.dom.experience_container[1] = <<>>
    /\ Len(page.dom.experience_container[2]) = 2
    /\ \A k \in 1..3 : ~NotBlank(page.dom.experience_container[2][1].job_title[k])
    /\ NotBlank(page.dom.experience_container[2][2].job_title[1])
    /\ NotBlank(page.dom.experience_container[3][1].company_name[1])
    /\ DOMAIN tier_data["css_selectors"] = {"name"}

\* ---------------------------------------------------------------------------
\* C27: the estimated years of experience are the first captured number of
\* the first explicit-number pattern, in the patterns' order, that matches
\* the lower-cased headline and about; without a match 8 for a word of
\* {senior, lead, principal, director}, else 5 for {manager, supervisor},
\* else 2 for {junior, associate, entry}, else null; and null when headline
\* and about are both absent.
Finalized == validation \in {"accepted", "rejected"}

\* the text the estimators read, lower-cased
EstimatorText == Lower(OrEmpty(profile.headline) \o <<" ">> \o OrEmpty(profile.about))

BucketYears(text) ==
    IF \E w \in {<<"s", "e", "n", "i", "o", "r">>, <<"l", "e", "a", "d">>, <<"p", "r", "i", "n", "c", "i", "p", "a", "l">>, <<"d", "i", "r", "e", "c", "t", "o", "r">>} : Contains(text, w)
    THEN Num(8)
    ELSE IF \E w \in {<<"m", "a", "n", "a", "g", "e", "r">>, <<"s", "u", "p", "e", "r", "v", "i", "s", "o", "r">>} : Contains(text, w) THEN Num(5)
    ELSE IF \E w \in {<<"j", "u", "n", "i", "o", "r">>, <<"a", "s", "s", "o", "c", "i", "a", "t", "e">>, <<"e", "n", "t", "r", "y">>} : Contains(text, w) THEN Num(2)
    ELSE None

\* the years of the pages' headlines, by the rule
HeadlineYears ==
    (<<"5", " ", "y", "e", "a", "r", "s", " ", "i", "n", " ", "s", "a", "l", "e", "s", ",", " ", "1", "0", " ", "y", "e", "a", "r", "s", " ", "o", "f", " ", "e", "x", "p", "e", "r", "i", "e", "n", "c", "e">> :> Num(10))
    @@ (<<"3", " ", "y", "r", "s", " ", "e", "x", "p", "e", "r", "i", "e", "n", "c", "e", ",", " ", "4", " ", "y", "e", "a", "r", "s", " ", "i", "n", " ", "b", "a", "n", "k", "i", "n", "g">> :> Num(4))
    @@ (<<"2", " ", "y", "e", "a", "r", "s", " ", "i", "n", " ", "a", "d", "s", " ", "9", " ", "y", "e", "a", "r", "s", " ", "i", "n", " ", "r", "e", "t", "a", "i", "l">> :> Num(2))
    @@ (<<"H", "e", "a", "l", "t", "h", " ", "t", "e", "c", "h", " ", "1", "2", "+", " ", "y", "r", "s", " ", "o", "f", " ", "e", "x", "p", "e", "r", "i", "e", "n", "c", "e">> :> Num(12))
    @@ (<<"J", "u", "n", "i", "o", "r", " ", "m", "a", "n", "a", "g", "e", "r">> :> Num(5))
    @@ (<<"S", "e", "n", "i", "o", "r", " ", "a", "s", "s", "o", "c", "i", "a", "t", "e">> :> Num(8))
    @@ (<<"E", "n", "t", "r", "y", " ", "c", "l", "e", "r", "k">> :> Num(2))
    @@ (<<"I", "T", " ", "m", "a", "n", "a", "g", "e", "r">> :> Num(5))
    @@ (<<"S", "a", "l", "e", "s", " ", "a", "n", "d", " ", "s", "o", "f", "t", "w", "a", "r", "e">> :> None)
    @@ (<<"N", "u", "r", "s", "e">> :> None)

C27_ExperienceYearsRule ==
    Finalized =>
        /\ IF ~Truthy(profile.headline) /\ ~Truthy(profile.about)
           THEN profile.experience_years = None
           ELSE IF \E k \in 1..3 : HasMatch(EstimatorText, year_patterns[k])
           THEN \E k \in 1..3 :
                    /\ HasMatch(EstimatorText, year_patterns[k])
                    /\ \A m \in 1..(k - 1) : ~HasMatch(EstimatorText, year_patterns[m])
                    /\ profile.experience_years =
                           Num(ParseInt(FirstMatch(EstimatorText, year_patterns[k])))
           ELSE profile.experience_years = BucketYears(EstimatorText)
        /\ (profile.headline.kind = "str" /\ profile.headline.text \in DOMAIN HeadlineYears) =>
               profile.experience_years = HeadlineYears[profile.headline.text]

\* the second pattern matches earlier in the text than the first, and the
\* first pattern's number is the result
C27_Witness ==
    /\ Finalized
    /\ profile.headline = Str(<<"5", " ", "y", "e", "a", "r", "s", " ", "i", "n", " ", "s", "a", "l", "e", "s", ",", " ", "1", "0", " ", "y", "e", "a", "r", "s", " ", "o", "f", " ", "e", "x", "p", "e", "r", "i", "e", "n", "c", "e">>)
    /\ profile.experience_years = Num(10)

\* ---------------------------------------------------------------------------
\* C28: the estimated industry is the first industry of the table, in table
\* order, one of whose keywords occurs in headline and about without regard
\* to case, for every keyword of the table; null when none occurs.
KeywordOccurs(text, k) ==
    \E w \in industry_keywords[k].keywords : Contains(Lower(text), Lower(w))

C28_FirstIndustryWithKeyword ==
    (Finalized /\ (Truthy(profile.headline) \/ Truthy(profile.about))) =>
        IF \E k \in DOMAIN industry_keywords : KeywordOccurs(EstimatorText, k)
        THEN \E k \in DOMAIN industry_keywords :
                 /\ KeywordOccurs(EstimatorText, k)
                 /\ \A m \in 1..(k - 1) : ~KeywordOccurs(EstimatorText, m)
                 /\ profile.industry = Str(Title(industry_keywords[k].industry))
        ELSE profile.industry = None

\* ---------------------------------------------------------------------------
\* C30: a Person in the "@graph" array of a script block's object reaches the
\* structured tier's result with the same fields as the same Person standing
\* alone at the top level of the block.
GraphOf(block) ==
    IF IsDict(block) /\ "@graph" \in DOMAIN block.members
    THEN block.members["@graph"].items ELSE <<>>

C30_GraphPersonExtracted ==
    (/\ "json_ld" \in ran
     /\ Len(page.scripts) = 1
     /\ \E i \in DOMAIN GraphOf(page.scripts[1]) : IsPerson(GraphOf(page.scripts[1])[i])) =>
        tier_data["json_ld"] =
            _extract_from_json_ld(<<PersonOfBlock(JArray(GraphOf(page.scripts[1])))[1]>>)
====
